---- MODULE Spec2Model ----
(***************************************************************************)
(* Asset lifecycle and custody-transfer engine of ams_v3_user.             *)
(*                                                                         *)
(* The state is the content of the database tables Location, ItemInstance, *)
(* StockEntry, InstanceMovement, LocationInventory and                     *)
(* InspectionCertificate (with its InspectionItem rows).  Every action is  *)
(* one HTTP handler of inventory/views.py, including the serializer, the   *)
(* model save() methods and the post_save signals it runs.                 *)
(***************************************************************************)
EXTENDS Integers, Sequences, FiniteSets, TLC

\* ------------------------------------------------------------------ bounds
MaxInst    == 2   \* ItemInstance rows that may ever exist
MaxEntries == 4   \* StockEntry rows that may ever exist
MaxCerts   == 1   \* InspectionCertificate rows that may ever exist
MaxReq     == 2   \* acknowledgment requests in flight at the same time

\* --------------------------------------------------------------- constants
NoLoc   == "none"      \* null foreign key to Location
NoVal   == "null"      \* null column value
Items   == {"x"}  \* Item rows (asset types)

IN_STORE         == "IN_STORE"
IN_TRANSIT       == "IN_TRANSIT"
IN_USE           == "IN_USE"
TEMPORARY_ISSUED == "TEMPORARY_ISSUED"
UNDER_REPAIR     == "UNDER_REPAIR"
DAMAGED          == "DAMAGED"
LOST             == "LOST"
CONDEMNED        == "CONDEMNED"
DISPOSED         == "DISPOSED"
InstanceStatus == {IN_STORE, IN_TRANSIT, IN_USE, TEMPORARY_ISSUED, UNDER_REPAIR,
                   DAMAGED, LOST, CONDEMNED, DISPOSED}

SYSTEM_ADMIN   == "SYSTEM_ADMIN"
LOCATION_HEAD  == "LOCATION_HEAD"
STOCK_INCHARGE == "STOCK_INCHARGE"
AUDITOR        == "AUDITOR"

VARIABLES
    locations,   \* Location table: code -> row
    instances,   \* ItemInstance table: sequence, id = index
    entries,     \* StockEntry table: sequence, id = index
    movements,   \* InstanceMovement table: sequence in creation order
    inventory,   \* LocationInventory table: <<location, item>> -> row, for the rows that exist
    certs,       \* InspectionCertificate table (items embedded): sequence
    reqs,        \* acknowledgment requests that passed their status check
                 \* and have not yet written (concurrent specification only)
    last         \* the request handled by the last step and its outcome

vars == <<locations, instances, entries, movements, inventory, certs, reqs, last>>

\* ------------------------------------------------------------ Location tree
\* University U (root) with main store US; department D under U with main
\* store DS and a further store S2.  hierarchy_path is the list of codes from
\* the root, as Location.save builds it.
LocIds == {"U", "US", "D", "DS", "S2"}

STORE      == "STORE"
DEPARTMENT == "DEPARTMENT"
OFFICE     == "OFFICE"
ROOM       == "ROOM"
BUILDING   == "BUILDING"

LocationRow(parent, type, store, standalone, main, auto, paired, path) ==
    [parent_location |-> parent, location_type |-> type,
     is_store |-> store, is_standalone |-> standalone,
     is_main_store |-> main, is_auto_created |-> auto, auto_created_store |-> paired,
     is_active |-> TRUE, hierarchy_path |-> path]

InitLocations ==
    [l \in LocIds |->
        CASE l = "U"  -> LocationRow(NoLoc, BUILDING, FALSE, TRUE, FALSE, FALSE, "US",
                                     <<"U">>)
          [] l = "US" -> LocationRow("U", STORE, TRUE, FALSE, TRUE, TRUE, NoLoc,
                                     <<"U", "US">>)
          [] l = "D"  -> LocationRow("U", DEPARTMENT, FALSE, TRUE, FALSE, FALSE, "DS",
                                     <<"U", "D">>)
          [] l = "DS" -> LocationRow("D", STORE, TRUE, FALSE, TRUE, TRUE, NoLoc,
                                     <<"U", "D", "DS">>)
          [] OTHER    -> LocationRow("D", STORE, TRUE, FALSE, FALSE, FALSE, NoLoc,
                                     <<"U", "D", "S2">>)]

IsStore(l) == l /= NoLoc /\ locations[l].is_store

\* Location.get_parent_standalone: the location itself when standalone, else
\* the first standalone location on the parent chain, else null.
RECURSIVE FirstStandaloneFrom(_, _)
FirstStandaloneFrom(l, fuel) ==
    IF l = NoLoc \/ fuel = 0 THEN NoLoc
    ELSE IF locations[l].is_standalone THEN l
    ELSE FirstStandaloneFrom(locations[l].parent_location, fuel - 1)

get_parent_standalone(l) ==
    IF locations[l].is_standalone THEN l
    ELSE IF locations[l].parent_location = NoLoc THEN NoLoc
    ELSE FirstStandaloneFrom(locations[l].parent_location,
                             Cardinality(DOMAIN locations))

\* (variant: a main store is not its own answer)
get_main_store_auto(l) ==
    IF locations[l].is_standalone /\ locations[l].auto_created_store /= NoLoc
         THEN locations[l].auto_created_store
    ELSE LET ps == get_parent_standalone(l) IN
         IF ps /= NoLoc /\ locations[ps].auto_created_store /= NoLoc
         THEN locations[ps].auto_created_store
         ELSE NoLoc

\* Location.get_main_store
get_main_store(l) ==
    IF locations[l].is_store /\ locations[l].is_main_store THEN l
    ELSE IF locations[l].is_standalone /\ locations[l].auto_created_store /= NoLoc
         THEN locations[l].auto_created_store
    ELSE LET ps == get_parent_standalone(l) IN
         IF ps /= NoLoc /\ locations[ps].auto_created_store /= NoLoc
         THEN locations[ps].auto_created_store
         ELSE NoLoc

\* The standalone location above the hierarchy of l's parent standalone:
\* self_parent_standalone.parent_location.get_parent_standalone()
ParentOfParentStandalone(l) ==
    LET ps == get_parent_standalone(l) IN
    IF ps = NoLoc THEN NoLoc
    ELSE IF locations[ps].parent_location = NoLoc THEN NoLoc
    ELSE get_parent_standalone(locations[ps].parent_location)

\* (variant: transfers within one hierarchy only)
can_transfer_to_within(from, to) ==
    IF ~locations[from].is_store THEN FALSE
    ELSE get_parent_standalone(from) = get_parent_standalone(to)

\* Location.can_transfer_to
can_transfer_to(from, to) ==
    IF ~locations[from].is_store THEN FALSE
    ELSE IF get_parent_standalone(from) = get_parent_standalone(to) THEN TRUE
    ELSE /\ locations[from].is_main_store
         /\ get_parent_standalone(from) /= NoLoc
         /\ locations[get_parent_standalone(from)].parent_location /= NoLoc
         /\ to = ParentOfParentStandalone(from)

\* Location.can_issue_to_parent_standalone
can_issue_to_parent_standalone(l) ==
    /\ locations[l].is_store
    /\ locations[l].is_main_store
    /\ get_parent_standalone(l) /= NoLoc
    /\ locations[get_parent_standalone(l)].parent_location /= NoLoc

\* Location.get_parent_standalone_for_issuance
get_parent_standalone_for_issuance(l) ==
    IF ~can_issue_to_parent_standalone(l) THEN NoLoc
    ELSE ParentOfParentStandalone(l)

\* sequence prefix: hierarchy_path.startswith
IsPrefix(p, q) == Len(p) <= Len(q) /\ SubSeq(q, 1, Len(p)) = p

\* Location.is_descendant_of: hierarchy_path.startswith(other.hierarchy_path + "/")
is_descendant_of(l, anc) ==
    /\ IsPrefix(locations[anc].hierarchy_path, locations[l].hierarchy_path)
    /\ Len(locations[anc].hierarchy_path) < Len(locations[l].hierarchy_path)

\* Location.get_descendants(include_self=True)
get_descendants_incl(l) ==
    {d \in DOMAIN locations : locations[d].is_active
                    /\ IsPrefix(locations[l].hierarchy_path, locations[d].hierarchy_path)}

\* ------------------------------------------------------------------- users
\* UserProfile rows: role and assigned_locations.
UserIds == {"admin", "aud", "hU", "hD", "sU", "sD", "sS"}

Profile(u) ==
    CASE u = "admin" -> [role |-> SYSTEM_ADMIN,   assigned_locations |-> {}]
      [] u = "aud"   -> [role |-> AUDITOR,        assigned_locations |-> {}]
      [] u = "hU"    -> [role |-> LOCATION_HEAD,  assigned_locations |-> {"U"}]
      [] u = "hD"    -> [role |-> LOCATION_HEAD,  assigned_locations |-> {"D"}]
      [] u = "sU"    -> [role |-> STOCK_INCHARGE, assigned_locations |-> {"US"}]
      [] u = "sD"    -> [role |-> STOCK_INCHARGE, assigned_locations |-> {"DS"}]
      [] OTHER       -> [role |-> STOCK_INCHARGE, assigned_locations |-> {"S2"}]

\* UserProfile.get_responsible_location (every profile above has at most one
\* assigned location, so .first() is that location when it has the right kind)
get_responsible_location(u) ==
    LET p == Profile(u) IN
    IF p.role \in {SYSTEM_ADMIN, AUDITOR}
    THEN (IF \E l \in DOMAIN locations : locations[l].parent_location = NoLoc
          THEN CHOOSE l \in DOMAIN locations : locations[l].parent_location = NoLoc
          ELSE NoLoc)
    ELSE IF p.role = LOCATION_HEAD
    THEN (IF \E l \in p.assigned_locations : locations[l].is_standalone
          THEN CHOOSE l \in p.assigned_locations : locations[l].is_standalone
          ELSE NoLoc)
    ELSE (IF \E l \in p.assigned_locations : locations[l].is_store
          THEN CHOOSE l \in p.assigned_locations : locations[l].is_store
          ELSE NoLoc)

\* UserProfile.has_location_access
has_location_access(u, l) ==
    LET p == Profile(u)
        resp == get_responsible_location(u)
    IN  IF p.role \in {SYSTEM_ADMIN, AUDITOR} THEN TRUE
        ELSE IF resp = NoLoc THEN FALSE
        ELSE IF l \in p.assigned_locations THEN TRUE
        ELSE IF p.role = LOCATION_HEAD
             THEN l = resp \/ is_descendant_of(l, resp)
        ELSE LET lps == get_parent_standalone(l)
                 sps == IF locations[resp].is_store THEN get_parent_standalone(resp)
                        ELSE NoLoc
             IN  lps /= NoLoc /\ sps /= NoLoc /\ lps = sps

\* UserProfile.get_accessible_locations
get_accessible_locations(u) ==
    LET p == Profile(u)
        resp == get_responsible_location(u)
    IN  IF p.role \in {SYSTEM_ADMIN, AUDITOR} THEN {l \in DOMAIN locations : locations[l].is_active}
        ELSE IF resp = NoLoc THEN {}
        ELSE IF p.role = LOCATION_HEAD THEN get_descendants_incl(resp)
        ELSE IF get_parent_standalone(resp) /= NoLoc
             THEN get_descendants_incl(get_parent_standalone(resp))
             ELSE {}

\* UserProfile.get_accessible_stores
get_accessible_stores(u) ==
    LET p == Profile(u)
        resp == get_responsible_location(u)
        assigned == {l \in p.assigned_locations :
                        locations[l].is_store /\ locations[l].is_active}
    IN  IF p.role \in {SYSTEM_ADMIN, AUDITOR}
        THEN {l \in DOMAIN locations : locations[l].is_store /\ locations[l].is_active}
        ELSE IF p.role = LOCATION_HEAD
        THEN {l \in get_accessible_locations(u) : locations[l].is_store}
        ELSE IF resp /= NoLoc /\ get_parent_standalone(resp) /= NoLoc
                /\ get_main_store(get_parent_standalone(resp)) /= NoLoc
             THEN {l \in assigned \cup {get_main_store(get_parent_standalone(resp))} :
                        locations[l].is_active}
             ELSE assigned

\* UserProfile.is_main_store_incharge
is_main_store_incharge(u) ==
    /\ Profile(u).role = STOCK_INCHARGE
    /\ \E l \in Profile(u).assigned_locations :
          locations[l].is_store /\ locations[l].is_main_store /\ locations[l].is_active

\* ---------------------------------------------------------------- database
\* The operators below take and return the tables a handler writes, as one
\* record db = [inst, ent, mov, inv], so that a handler is the composition of
\* its statements in program order.
DB == [inst |-> instances, ent |-> entries, mov |-> movements, inv |-> inventory]

InstIds(db) == 1..Len(db.inst)
MaxOf(S) == CHOOSE m \in S : \A n \in S : n <= m

\* ItemInstance.objects.filter(id__in=ids): ids without a row select nothing
FilterIds(db, ids) == ids \cap InstIds(db)

\* LocationInventory.update_quantities on the row (loc, item)
update_quantities(db, loc, item) ==
    LET src == {i \in InstIds(db) : db.inst[i].item = item
                                    /\ db.inst[i].source_location = loc}
        cnt(st) == Cardinality({i \in src : db.inst[i].current_status = st})
        row == [total_quantity            |-> Cardinality(src),
                in_store_quantity         |-> Cardinality({i \in src :
                                                 /\ db.inst[i].current_status = IN_STORE
                                                 /\ db.inst[i].current_location = loc}),
                in_transit_quantity       |-> cnt(IN_TRANSIT),
                in_use_quantity           |-> cnt(IN_USE),
                temporary_issued_quantity |-> cnt(TEMPORARY_ISSUED),
                under_repair_quantity     |-> cnt(UNDER_REPAIR),
                damaged_quantity          |-> cnt(DAMAGED),
                lost_quantity             |-> cnt(LOST),
                condemned_quantity        |-> cnt(CONDEMNED),
                disposed_quantity         |-> cnt(DISPOSED),
                available_quantity        |-> Cardinality({i \in InstIds(db) :
                                                 /\ db.inst[i].item = item
                                                 /\ db.inst[i].current_location = loc
                                                 /\ db.inst[i].current_status = IN_STORE})]
    IN  [db EXCEPT !.inv = [k \in DOMAIN db.inv \cup {<<loc, item>>} |->
                                IF k = <<loc, item>> THEN row ELSE db.inv[k]]]

\* "if location and location.is_store: get_or_create(...); inv.update_quantities()"
RefreshIfStore(db, loc, item) ==
    IF IsStore(loc) THEN update_quantities(db, loc, item) ELSE db

\* post_save signal update_inventory_on_instance_change
update_inventory_on_instance_change(db, i) ==
    LET r   == db.inst[i]
        db1 == RefreshIfStore(db, r.source_location, r.item)
    IN  IF IsStore(r.current_location) /\ r.current_location /= r.source_location
        THEN update_quantities(db1, r.current_location, r.item)
        ELSE db1

\* ItemInstance.save on an existing row, with its post_save signal
SaveInstance(db, i, row) ==
    update_inventory_on_instance_change([db EXCEPT !.inst[i] = row], i)

\* ItemInstance.objects.create, with its post_save signal
CreateInstance(db, item, loc, cert) ==
    LET row == [item |-> item, source_location |-> loc, current_location |-> loc,
                current_status |-> IN_STORE, previous_status |-> NoVal,
                inspection_certificate |-> cert]
    IN  update_inventory_on_instance_change(
            [db EXCEPT !.inst = Append(db.inst, row)], Len(db.inst) + 1)

\* StockEntry._check_upward_transfer
check_upward_transfer(e) ==
    IF e.entry_type /= "ISSUE" \/ e.from_location = NoLoc \/ e.to_location = NoLoc
    THEN FALSE
    ELSE IF ~(locations[e.from_location].is_store /\ locations[e.from_location].is_main_store)
    THEN FALSE
    ELSE IF get_parent_standalone(e.from_location) = NoLoc THEN FALSE
    ELSE IF locations[get_parent_standalone(e.from_location)].parent_location /= NoLoc
    THEN e.to_location = ParentOfParentStandalone(e.from_location)
    ELSE FALSE

\* StockEntry._check_acknowledgment_required
check_acknowledgment_required(e) ==
    IF e.entry_type = "ISSUE"
    THEN \/ IsStore(e.from_location) /\ IsStore(e.to_location)
         \/ check_upward_transfer(e)
    ELSE IF e.entry_type = "RETURN" THEN IsStore(e.to_location)
    ELSE FALSE

\* post_save signal update_inventory_on_stock_entry
update_inventory_on_stock_entry(db, e) ==
    IF e.status = "COMPLETED"
    THEN RefreshIfStore(RefreshIfStore(db, e.from_location, e.item), e.to_location, e.item)
    ELSE db

\* StockEntry.save: the derived flags are recomputed on every save
DerivedFlags(e) ==
    [e EXCEPT !.requires_acknowledgment = check_acknowledgment_required(e),
              !.is_upward_transfer = check_upward_transfer(e)]

EntryRow(type, st, from, to, item, qty, insts, ref, temp, cert) ==
    [entry_type |-> type, status |-> st, from_location |-> from, to_location |-> to,
     item |-> item, quantity |-> qty, instances |-> insts, reference_entry |-> ref,
     is_temporary |-> temp, inspection_certificate |-> cert,
     requires_acknowledgment |-> FALSE, is_upward_transfer |-> FALSE]

\* StockEntry.objects.create followed by entry.instances.set(...)
CreateEntry(db, row) ==
    update_inventory_on_stock_entry(
        [db EXCEPT !.ent = Append(db.ent, DerivedFlags(row))], row)

\* stock_entry.save() on an existing row
SaveEntry(db, e, row) ==
    update_inventory_on_stock_entry([db EXCEPT !.ent[e] = DerivedFlags(row)], row)

\* StockEntryViewSet._update_inventories
update_inventories(db, e) ==
    RefreshIfStore(RefreshIfStore(db, e.from_location, e.item), e.to_location, e.item)

MovementRow(i, entry, from, to, prev, new, type, acked) ==
    [instance |-> i, stock_entry |-> entry, from_location |-> from, to_location |-> to,
     previous_status |-> prev, new_status |-> new, movement_type |-> type,
     acknowledged |-> acked]

\* (variant: the movement row is written from the saved instance)
change_status_after(db, i, new_status, location) ==
    LET old == db.inst[i]
        row == [old EXCEPT !.previous_status = old.current_status,
                           !.current_status = new_status,
                           !.current_location =
                               IF location /= NoLoc THEN location ELSE @]
        db1 == SaveInstance(db, i, row)
    IN  [db1 EXCEPT !.mov = Append(db1.mov,
            MovementRow(i, 0, row.current_location, row.current_location,
                        old.current_status, new_status, "TRANSFER", FALSE))]

\* ItemInstance.change_status: status and location, then one movement row
\* (movement_type keeps the model default 'TRANSFER', stock_entry stays null)
change_status(db, i, new_status, location) ==
    LET old == db.inst[i]
        row == [old EXCEPT !.previous_status = old.current_status,
                           !.current_status = new_status,
                           !.current_location =
                               IF location /= NoLoc THEN location ELSE @]
        db1 == SaveInstance(db, i, row)
    IN  [db1 EXCEPT !.mov = Append(db1.mov,
            MovementRow(i, 0, old.current_location, row.current_location,
                        old.current_status, new_status, "TRANSFER", FALSE))]

\* "for instance in instances: instance.change_status(...)"; the default
\* ordering of ItemInstance is -created_at, i.e. newest row first
RECURSIVE ChangeStatusAll(_, _, _, _)
ChangeStatusAll(db, S, new_status, location) ==
    IF S = {} THEN db
    ELSE ChangeStatusAll(change_status(db, MaxOf(S), new_status, location),
                         S \ {MaxOf(S)}, new_status, location)

\* ------------------------------------------------------- stock entry access
\* CanManageStockEntry.has_permission
CanManageStockEntry_has_permission(u) ==
    Profile(u).role \in {SYSTEM_ADMIN, AUDITOR, STOCK_INCHARGE}

\* StockEntryViewSet.get_queryset: the rows get_object() can find
EntryVisible(u, e) ==
    \/ Profile(u).role \in {SYSTEM_ADMIN, AUDITOR}
    \/ e.from_location \in get_accessible_locations(u)
    \/ e.to_location \in get_accessible_locations(u)

\* CanManageStockEntry.has_object_permission, action acknowledge_receipt
MayAcknowledgeReceipt(u, e) ==
    /\ CanManageStockEntry_has_permission(u)
    /\ EntryVisible(u, e)
    /\ \/ Profile(u).role = SYSTEM_ADMIN
       \/ e.to_location /= NoLoc /\ has_location_access(u, e.to_location)

\* CanManageStockEntry.has_object_permission, action acknowledge_return
MayAcknowledgeReturn(u, e) ==
    /\ CanManageStockEntry_has_permission(u)
    /\ EntryVisible(u, e)
    /\ \/ Profile(u).role = SYSTEM_ADMIN
       \/ /\ e.entry_type = "RETURN"
          /\ e.to_location /= NoLoc
          /\ has_location_access(u, e.to_location)

\* what `last` records about a request
Call(op, ok, e, acc, rej) ==
    [op |-> op, ok |-> ok, entry |-> e, accepted |-> acc, rejected |-> rej]

\* -------------------------------------------------------- acknowledge_receipt
\* accepted branch, one instance: ownership transfer, IN_STORE, movement row
AcceptOne(db, i, se, rid) ==
    LET row == [db.inst[i] EXCEPT !.source_location = se.to_location,
                                  !.current_location = se.to_location,
                                  !.current_status = IN_STORE]
        db1 == SaveInstance(SaveInstance(db, i, row), i, row)
    IN  [db1 EXCEPT !.mov = Append(db1.mov,
            MovementRow(i, rid, se.from_location, se.to_location,
                        IN_TRANSIT, IN_STORE, "TRANSFER", TRUE))]

RECURSIVE AcceptLoop(_, _, _, _)
AcceptLoop(db, S, se, rid) ==
    IF S = {} THEN db
    ELSE AcceptLoop(AcceptOne(db, MaxOf(S), se, rid), S \ {MaxOf(S)}, se, rid)

\* "if accepted_ids:" block: RECEIPT entry, the loop, receiver's inventory
ProcessAccepted(db, e, acc) ==
    LET se  == db.ent[e]
        rid == Len(db.ent) + 1
        db1 == CreateEntry(db, EntryRow("RECEIPT", "COMPLETED", se.from_location,
                   se.to_location, se.item, Cardinality(acc), FilterIds(db, acc),
                   e, FALSE, 0))
        db2 == AcceptLoop(db1, FilterIds(db1, acc), se, rid)
    IN  RefreshIfStore(db2, se.to_location, se.item)

\* the rejected branch with an ownership transfer to the receiver
RejectOne_owner(db, i, se, rid) ==
    LET row == [db.inst[i] EXCEPT !.source_location = se.to_location,
                                  !.current_location = se.from_location,
                                  !.current_status = IN_TRANSIT,
                                  !.previous_status = IN_TRANSIT]
        db1 == SaveInstance(SaveInstance(db, i, row), i, row)
    IN  [db1 EXCEPT !.mov = Append(db1.mov,
            MovementRow(i, rid, se.to_location, se.from_location,
                        IN_TRANSIT, IN_TRANSIT, "RETURN", FALSE))]

\* rejected branch, one instance: routed back, still IN_TRANSIT, owner kept
RejectOne(db, i, se, rid) ==
    LET row == [db.inst[i] EXCEPT !.current_location = se.from_location,
                                  !.current_status = IN_TRANSIT,
                                  !.previous_status = IN_TRANSIT]
        db1 == SaveInstance(SaveInstance(db, i, row), i, row)
    IN  [db1 EXCEPT !.mov = Append(db1.mov,
            MovementRow(i, rid, se.to_location, se.from_location,
                        IN_TRANSIT, IN_TRANSIT, "RETURN", FALSE))]

RECURSIVE RejectLoop(_, _, _, _)
RejectLoop(db, S, se, rid) ==
    IF S = {} THEN db
    ELSE RejectLoop(RejectOne(db, MaxOf(S), se, rid), S \ {MaxOf(S)}, se, rid)

\* "if rejected_ids:" block: RETURN entry in PENDING_ACK and the loop
ProcessRejected(db, e, rej) ==
    LET se  == db.ent[e]
        rid == Len(db.ent) + 1
        db1 == CreateEntry(db, EntryRow("RETURN", "PENDING_ACK", se.to_location,
                   se.from_location, se.item, Cardinality(rej), FilterIds(db, rej),
                   e, FALSE, 0))
    IN  RejectLoop(db1, FilterIds(db1, rej), se, rid)

\* the writes of acknowledge_receipt after its two early returns
AcknowledgeReceiptWrites(db, e, acc, rej) ==
    LET db1 == IF acc /= {} THEN ProcessAccepted(db, e, acc) ELSE db
        db2 == IF rej /= {} THEN ProcessRejected(db1, e, rej) ELSE db1
    IN  SaveEntry(db2, e, [db2.ent[e] EXCEPT !.status = "COMPLETED"])

\* acknowledge_receipt without its status check
ReceiptStillPending_any(e) == e \in 1..Len(entries)

\* "if stock_entry.status != 'PENDING_ACK': return 400" of acknowledge_receipt
ReceiptStillPending(e) == entries[e].status = "PENDING_ACK"

\* the checks of acknowledge_receipt before anything is written
AcknowledgeReceiptChecks(u, e, acc, rej) ==
    /\ MayAcknowledgeReceipt(u, entries[e])
    /\ ReceiptStillPending(e)
    /\ ~(acc = {} /\ rej = {})

\* rows a successful acknowledge_receipt adds to StockEntry
NewEntriesOfReceipt(acc, rej) ==
    (IF acc /= {} THEN 1 ELSE 0) + (IF rej /= {} THEN 1 ELSE 0)

\* --------------------------------------------------------- acknowledge_return
ReturnOne(db, i, re, rid) ==
    LET row == [db.inst[i] EXCEPT !.current_location = re.to_location,
                                  !.current_status = IN_STORE,
                                  !.previous_status = IN_TRANSIT]
        db1 == SaveInstance(SaveInstance(db, i, row), i, row)
    IN  [db1 EXCEPT !.mov = Append(db1.mov,
            MovementRow(i, rid, re.from_location, re.to_location,
                        IN_TRANSIT, IN_STORE, "RETURN", TRUE))]

RECURSIVE ReturnLoop(_, _, _, _)
ReturnLoop(db, S, re, rid) ==
    IF S = {} THEN db
    ELSE ReturnLoop(ReturnOne(db, MaxOf(S), re, rid), S \ {MaxOf(S)}, re, rid)

\* acknowledged_ids: the ids of the request, or all of the entry when none
AcknowledgedIds(e, ids) == IF ids = {} THEN e.instances ELSE ids

\* the writes of acknowledge_return after its early returns
AcknowledgeReturnWrites(db, e, ids) ==
    LET re   == db.ent[e]
        aids == AcknowledgedIds(re, ids)
        rid  == Len(db.ent) + 1
        db1  == CreateEntry(db, EntryRow("RECEIPT", "COMPLETED", re.from_location,
                    re.to_location, re.item, Cardinality(aids), FilterIds(db, aids),
                    e, FALSE, 0))
        db2  == ReturnLoop(db1, FilterIds(db1, aids), re, rid)
        db3  == SaveEntry(db2, e, [db2.ent[e] EXCEPT !.status = "COMPLETED"])
    IN  RefreshIfStore(db3, re.to_location, re.item)

\* "if stock_entry.status != 'PENDING_ACK': return 400" of acknowledge_return
ReturnStillPending(e) == entries[e].status = "PENDING_ACK"

\* the checks of acknowledge_return before anything is written
AcknowledgeReturnChecks(u, e, ids) ==
    /\ MayAcknowledgeReturn(u, entries[e])
    /\ entries[e].entry_type = "RETURN"
    /\ ReturnStillPending(e)
    /\ AcknowledgedIds(entries[e], ids) /= {}

\* ------------------------------------------------------------------ writing
Commit(db) ==
    /\ instances' = db.inst
    /\ entries' = db.ent
    /\ movements' = db.mov
    /\ inventory' = db.inv

AllInstIds == 1..MaxInst

\* POST stock-entries/{e}/acknowledge_receipt/ answered 200
AcknowledgeReceipt(u, e, acc, rej) ==
    /\ e \in 1..Len(entries)
    /\ AcknowledgeReceiptChecks(u, e, acc, rej)
    /\ Len(entries) + NewEntriesOfReceipt(acc, rej) <= MaxEntries
    /\ Commit(AcknowledgeReceiptWrites(DB, e, acc, rej))
    /\ last' = Call("acknowledge_receipt", TRUE, e, acc, rej)
    /\ UNCHANGED <<locations, certs, reqs>>

\* POST stock-entries/{e}/acknowledge_receipt/ answered 400, 403 or 404:
\* one of the early returns is taken and nothing is written
AcknowledgeReceiptRefused(u, e, acc, rej) ==
    /\ e \in 1..Len(entries)
    /\ ~AcknowledgeReceiptChecks(u, e, acc, rej)
    /\ last' = Call("acknowledge_receipt", FALSE, e, {}, {})
    /\ UNCHANGED <<locations, instances, entries, movements, inventory, certs, reqs>>

\* POST stock-entries/{e}/acknowledge_return/ answered 200
AcknowledgeReturn(u, e, ids) ==
    /\ e \in 1..Len(entries)
    /\ AcknowledgeReturnChecks(u, e, ids)
    /\ Len(entries) + 1 <= MaxEntries
    /\ Commit(AcknowledgeReturnWrites(DB, e, ids))
    /\ last' = Call("acknowledge_return", TRUE, e, ids, {})
    /\ UNCHANGED <<locations, certs, reqs>>

\* POST stock-entries/{e}/acknowledge_return/ answered 400, 403 or 404
AcknowledgeReturnRefused(u, e, ids) ==
    /\ e \in 1..Len(entries)
    /\ ~AcknowledgeReturnChecks(u, e, ids)
    /\ last' = Call("acknowledge_return", FALSE, e, {}, {})
    /\ UNCHANGED <<locations, instances, entries, movements, inventory, certs, reqs>>

\* ------------------------------------------------------- creating an entry
\* StockEntrySerializer.validate for entry_type ISSUE; the result is the
\* stored to_location (data['to_location']), or NoLoc when validation fails.
\* The local variable to_location keeps the submitted value throughout.
IssueStoredTo(u, from, to) ==
    LET psi      == get_parent_standalone_for_issuance(from)
        incharge == Profile(u).role = STOCK_INCHARGE
        upward   == incharge /\ locations[from].is_main_store /\ to = psi
        roleOk   == IF ~incharge THEN TRUE
                    ELSE IF from \notin get_accessible_stores(u) THEN FALSE
                    ELSE IF ~locations[from].is_main_store THEN TRUE
                    ELSE IF to = psi THEN get_main_store(to) /= NoLoc
                    ELSE has_location_access(u, to)
        moveOk   == IF locations[from].is_main_store
                    THEN \/ get_parent_standalone(to) = psi
                         \/ can_transfer_to(from, to)
                    ELSE can_transfer_to(from, to)
    IN  IF roleOk /\ locations[from].is_store /\ moveOk
        THEN (IF upward THEN get_main_store(to) ELSE to)
        ELSE NoLoc

\* StockEntrySerializer.validate_instances: is_available() for an ISSUE
validate_instances(insts) ==
    \A i \in insts : instances[i].current_status = IN_STORE

\* _process_issue_entry without its two-phase branch: every issue is closed at
\* once and the instances are put in use
process_issue_entry_single_phase(db, e) ==
    LET se     == db.ent[e]
        target == IF se.is_temporary THEN TEMPORARY_ISSUED ELSE IN_USE
        saved  == [se EXCEPT !.status = "COMPLETED"]
        db1    == SaveEntry(db, e, saved)
        db2    == ChangeStatusAll(db1, se.instances, target, se.to_location)
    IN  update_inventories(db2, db2.ent[e])

\* StockEntryViewSet._process_issue_entry
process_issue_entry(db, e) ==
    LET se     == db.ent[e]
        pend   == IsStore(se.to_location)
        target == IF pend THEN IN_TRANSIT
                  ELSE IF se.is_temporary THEN TEMPORARY_ISSUED ELSE IN_USE
        saved  == [se EXCEPT !.status = IF pend THEN "PENDING_ACK" ELSE "COMPLETED"]
        db1    == SaveEntry(db, e, saved)
        db2    == ChangeStatusAll(db1, se.instances, target, se.to_location)
    IN  update_inventories(db2, db2.ent[e])

\* StockEntryViewSet._process_receipt_entry
process_receipt_entry(db, e) ==
    LET se  == db.ent[e]
        db1 == SaveEntry(db, e, [se EXCEPT !.status = "COMPLETED"])
        db2 == ChangeStatusAll(db1, se.instances, IN_STORE, se.to_location)
    IN  update_inventories(db2, db2.ent[e])

\* StockEntrySerializer.create, "for i in range(stock_entry.quantity)"
RECURSIVE AutoCreateInstancesFor(_, _, _, _, _)
AutoCreateInstancesFor(db, n, item, loc, cert) ==
    IF n = 0 THEN db
    ELSE AutoCreateInstancesFor(CreateInstance(db, item, loc, cert), n - 1,
                                item, loc, cert)

AutoCreateInstances(db, n, item, loc) == AutoCreateInstancesFor(db, n, item, loc, 0)

\* the quantity a client sends with a list of instances: their number
QuantityOf(insts) == IF insts = {} THEN 1 ELSE Cardinality(insts)

\* POST stock-entries/ with entry_type ISSUE (perform_create)
CreateIssue(u, from, to, item, insts, temp) ==
    /\ Len(entries) < MaxEntries
    /\ CanManageStockEntry_has_permission(u)
    /\ IssueStoredTo(u, from, to) /= NoLoc
    /\ insts \subseteq 1..Len(instances)
    /\ validate_instances(insts)
    /\ LET e   == Len(entries) + 1
           db1 == CreateEntry(DB, EntryRow("ISSUE", "DRAFT", from,
                      IssueStoredTo(u, from, to), item, QuantityOf(insts), insts,
                      0, temp, 0))
       IN  /\ Commit(process_issue_entry(db1, e))
           /\ last' = Call("issue", TRUE, e, {}, {})
    /\ UNCHANGED <<locations, certs, reqs>>

\* StockEntrySerializer.validate for entry_type RECEIPT
ReceiptValid(u, to) ==
    /\ Profile(u).role = STOCK_INCHARGE => to \in get_accessible_stores(u)
    /\ locations[to].is_store

\* POST stock-entries/ with entry_type RECEIPT (perform_create)
CreateReceipt(u, from, to, item, insts, qty, auto) ==
    /\ Len(entries) < MaxEntries
    /\ CanManageStockEntry_has_permission(u)
    /\ (IF from = NoLoc THEN TRUE ELSE locations[from].is_store)
    /\ ReceiptValid(u, to)
    /\ insts \subseteq 1..Len(instances)
    /\ IF auto /\ insts = {}
       THEN Len(instances) + qty <= MaxInst
       ELSE qty = QuantityOf(insts)
    /\ LET e   == Len(entries) + 1
           db1 == CreateEntry(DB, EntryRow("RECEIPT", "DRAFT", from, to, item,
                                           qty, insts, 0, FALSE, 0))
           db2 == IF auto /\ insts = {}
                  THEN LET made == AutoCreateInstances(db1, qty, item, to)
                       IN  [made EXCEPT !.ent[e].instances =
                                (Len(db1.inst) + 1)..Len(made.inst)]
                  ELSE db1
       IN  /\ Commit(process_receipt_entry(db2, e))
           /\ last' = Call("receipt", TRUE, e, {}, {})
    /\ UNCHANGED <<locations, certs, reqs>>

\* ---------------------------------------------------- inspection certificates
INITIATED        == "INITIATED"
STOCK_DETAILS    == "STOCK_DETAILS"
CENTRAL_REGISTER == "CENTRAL_REGISTER"
AUDIT_REVIEW     == "AUDIT_REVIEW"
COMPLETED        == "COMPLETED"
REJECTED         == "REJECTED"

Absent == "absent"   \* a key the request does not carry
NoQty  == -1         \* a quantity key the request does not carry

\* request.data of a certificate request: the keys the handlers look at.
\* The three quantities and the two register numbers are the keys of the
\* entry of inspection_items the request carries.
NoData ==
    [department |-> Absent, consignee |-> Absent,
     contractor_name |-> Absent, contract_no |-> Absent,
     indenter |-> Absent, date |-> Absent,
     tendered_quantity |-> NoQty, accepted_quantity |-> NoQty,
     rejected_quantity |-> NoQty,
     stock_register_no |-> Absent, central_register_no |-> Absent]

Data(dept, consignee, stock_no, central_no) ==
    [NoData EXCEPT !.department = dept, !.consignee = consignee,
                   !.stock_register_no = stock_no, !.central_register_no = central_no]

\* the header fields of a certificate: required, non-blank model fields
HeaderFields == {"contractor_name", "contract_no", "indenter", "date"}

\* the keys of an inspection_items entry
QuantityFields == {"tendered_quantity", "accepted_quantity", "rejected_quantity"}
RegisterFields == {"stock_register_no", "central_register_no"}

\* "inspection_items" is a key of the request
HasItemData(d) ==
    \/ \E f \in QuantityFields : d[f] /= NoQty
    \/ \E f \in RegisterFields : d[f] /= Absent

\* InspectionItem row
ItemRow(item, tendered, accepted, rejected) ==
    [item |-> item, tendered_quantity |-> tendered,
     accepted_quantity |-> accepted, rejected_quantity |-> rejected,
     stock_register_no |-> NoVal, central_register_no |-> NoVal]

\* InspectionCertificate row with its inspection_items; created_department
\* is the department the CREATE_INSPECTION_CERTIFICATE activity records
CertRow(dept, hdr, items) ==
    [department |-> dept, created_department |-> dept,
     stage |-> INITIATED, stage_history |-> <<>>,
     contractor_name |-> hdr.contractor_name, contract_no |-> hdr.contract_no,
     indenter |-> hdr.indenter, date |-> hdr.date,
     consignee_name |-> "", consignee_designation |-> "",
     rejection_reason |-> NoVal, rejection_stage |-> NoVal,
     inspection_items |-> items]

\* "inspection.department.parent_location is None"
is_root_department(c) == locations[c.department].parent_location = NoLoc

\* UserProfile.can_create_inspection_certificates
can_create_inspection_certificates(u) ==
    \/ Profile(u).role = SYSTEM_ADMIN
    \/ /\ Profile(u).role = LOCATION_HEAD
       /\ get_responsible_location(u) /= NoLoc
       /\ locations[get_responsible_location(u)].is_standalone

\* InspectionCertificatePermission.has_permission
CertHasPermission(u, action) ==
    LET role == Profile(u).role IN
    IF role = SYSTEM_ADMIN THEN TRUE
    ELSE CASE action = "create" -> can_create_inspection_certificates(u)
           [] action = "update" ->
                role \in {LOCATION_HEAD, STOCK_INCHARGE, AUDITOR, SYSTEM_ADMIN}
           [] action = "submit_to_stock_incharge" -> role = LOCATION_HEAD
           [] action = "submit_stock_details" -> role = STOCK_INCHARGE
           [] action = "submit_central_register" -> role = STOCK_INCHARGE
           [] action = "submit_audit_review" -> role = AUDITOR
           [] action = "reject" -> role = AUDITOR
           [] OTHER -> FALSE

\* "main_store and profile.has_location_access(main_store)"
DeptStoreAccess(u, c) ==
    /\ get_main_store(c.department) /= NoLoc
    /\ has_location_access(u, get_main_store(c.department))

\* InspectionCertificatePermission.has_object_permission
CertHasObjectPermission(u, action, c) ==
    LET role == Profile(u).role IN
    IF role = SYSTEM_ADMIN THEN TRUE
    ELSE CASE action = "submit_to_stock_incharge" ->
                c.stage = INITIATED /\ has_location_access(u, c.department)
           [] action = "submit_stock_details" ->
                /\ c.stage = STOCK_DETAILS
                /\ ~is_main_store_incharge(u)
                /\ DeptStoreAccess(u, c)
           [] action = "submit_central_register" ->
                /\ c.stage = CENTRAL_REGISTER
                /\ role = STOCK_INCHARGE
                /\ is_main_store_incharge(u)
           [] action = "submit_audit_review" ->
                c.stage = AUDIT_REVIEW /\ role = AUDITOR
           [] action = "reject" -> c.stage \notin {COMPLETED, REJECTED}
           [] action = "update" ->
                CASE c.stage = INITIATED ->
                        role = LOCATION_HEAD /\ has_location_access(u, c.department)
                  [] c.stage = STOCK_DETAILS ->
                        /\ role = STOCK_INCHARGE
                        /\ ~is_main_store_incharge(u)
                        /\ DeptStoreAccess(u, c)
                  [] c.stage = CENTRAL_REGISTER ->
                        role = STOCK_INCHARGE /\ is_main_store_incharge(u)
                  [] c.stage = AUDIT_REVIEW -> role = AUDITOR
                  [] OTHER -> FALSE
           [] OTHER -> FALSE

\* InspectionCertificateViewSet.get_queryset: the rows get_object() can find
CertVisible(u, c) ==
    LET role == Profile(u).role IN
    IF role \in {SYSTEM_ADMIN, AUDITOR} THEN TRUE
    ELSE IF role = STOCK_INCHARGE
    THEN IF is_main_store_incharge(u)
         THEN c.stage \in {CENTRAL_REGISTER, AUDIT_REVIEW}
         ELSE /\ c.stage = STOCK_DETAILS
              /\ \E st \in get_accessible_stores(u) :
                    /\ locations[st].is_main_store
                    /\ locations[st].parent_location /= NoLoc
                    /\ get_parent_standalone(st) = c.department
    ELSE c.department \in get_accessible_locations(u)

\* get_object() and the permission classes, for a detail action
CertAccess(u, action, c) ==
    /\ CertHasPermission(u, action)
    /\ CertVisible(u, c)
    /\ CertHasObjectPermission(u, action, c)

\* (variant: a blank value is accepted)
HeaderAccepted_blank(v) == TRUE

\* a required CharField or DateField of the model serializer: a blank
\* value is refused ("This field may not be blank")
HeaderAccepted(v) == v /= ""

\* value of a quantity key of the item entry: "data.get(key, 0)"
QuantityGiven(d, f) == IF d[f] = NoQty THEN 0 ELSE d[f]

\* InspectionItemSerializer.validate on the item entry as sent: the
\* quantities that were not sent count as 0.  (The stage rules that follow
\* in validate need the certificate, which the nested serializer does not
\* find: its parent is the list serializer, whose instance is None.)
ItemDataValid(d) ==
    QuantityGiven(d, "accepted_quantity") + QuantityGiven(d, "rejected_quantity")
        <= QuantityGiven(d, "tendered_quantity")

\* serializer.is_valid and the checks at the head of
\* InspectionCertificateSerializer.update: FALSE when they raise
CertDataValid(u, c, d) ==
    LET role == Profile(u).role IN
    /\ d.department /= Absent => locations[d.department].is_standalone
    /\ \A f \in HeaderFields : d[f] /= Absent => HeaderAccepted(d[f])
    /\ HasItemData(d) => ItemDataValid(d)
    /\ role = LOCATION_HEAD => c.stage = INITIATED
    /\ role = STOCK_INCHARGE =>
          IF c.stage = STOCK_DETAILS
          THEN DeptStoreAccess(u, c) /\ ~is_main_store_incharge(u)
          ELSE IF c.stage = CENTRAL_REGISTER THEN is_main_store_incharge(u)
          ELSE FALSE
    /\ role = AUDITOR => c.stage = AUDIT_REVIEW
    /\ c.stage /= COMPLETED
    /\ HasItemData(d) => role \in {LOCATION_HEAD, STOCK_INCHARGE, SYSTEM_ADMIN}

\* the item part of InspectionCertificateSerializer.update: the fields that
\* may be written depend on the stage and, for the central register, the role
UpdateItem(u, c, d, it) ==
    [it EXCEPT
        !.tendered_quantity =
            IF d.tendered_quantity /= NoQty /\ c.stage = INITIATED
            THEN d.tendered_quantity ELSE @,
        !.accepted_quantity =
            IF d.accepted_quantity /= NoQty /\ c.stage = INITIATED
            THEN d.accepted_quantity ELSE @,
        !.rejected_quantity =
            IF d.rejected_quantity /= NoQty /\ c.stage = INITIATED
            THEN d.rejected_quantity ELSE @,
        !.stock_register_no =
            IF d.stock_register_no /= Absent /\ c.stage = STOCK_DETAILS
            THEN d.stock_register_no ELSE @,
        !.central_register_no =
            IF /\ d.central_register_no /= Absent
               /\ c.stage = CENTRAL_REGISTER
               /\ Profile(u).role = STOCK_INCHARGE
            THEN d.central_register_no ELSE @]

\* InspectionCertificateSerializer.update on valid data: "setattr(instance,
\* attr, value)" for every attribute sent, then the items
CertUpdate(u, c, d) ==
    [c EXCEPT
        !.department = IF d.department /= Absent THEN d.department ELSE @,
        !.consignee_name = IF d.consignee /= Absent THEN d.consignee ELSE @,
        !.consignee_designation = IF d.consignee /= Absent THEN d.consignee ELSE @,
        !.contractor_name = IF d.contractor_name /= Absent THEN d.contractor_name ELSE @,
        !.contract_no = IF d.contract_no /= Absent THEN d.contract_no ELSE @,
        !.indenter = IF d.indenter /= Absent THEN d.indenter ELSE @,
        !.date = IF d.date /= Absent THEN d.date ELSE @,
        !.inspection_items =
            IF HasItemData(d)
            THEN [k \in DOMAIN @ |-> UpdateItem(u, c, d, @[k])]
            ELSE @]

\* "if request.data: serializer.is_valid(raise_exception=True); serializer.save()"
WithData(u, c, d) == IF d = NoData THEN c ELSE CertUpdate(u, c, d)

\* (variant: the stage is written without a history record)
transition_stage_silent(c, new_stage, u, reason) ==
    [c EXCEPT !.stage = new_stage,
              !.rejection_reason = IF new_stage = REJECTED THEN reason ELSE @,
              !.rejection_stage = IF new_stage = REJECTED THEN c.stage ELSE @]

\* InspectionCertificate.transition_stage
transition_stage(c, new_stage, u, reason) ==
    [c EXCEPT !.stage_history =
                  Append(@, [from_stage |-> c.stage, to_stage |-> new_stage]),
              !.stage = new_stage,
              !.rejection_reason = IF new_stage = REJECTED THEN reason ELSE @,
              !.rejection_stage = IF new_stage = REJECTED THEN c.stage ELSE @]

\* "inspection_items.exclude(Q(stock_register_no__isnull=True) |
\* Q(stock_register_no='')).count()" is not 0
HasStockRegister(c) ==
    \E k \in DOMAIN c.inspection_items :
        c.inspection_items[k].stock_register_no \notin {NoVal, ""}

\* "inspection_items.filter(central_register_no__isnull=False).count()" is not 0
HasCentralRegister(c) ==
    \E k \in DOMAIN c.inspection_items :
        c.inspection_items[k].central_register_no /= NoVal

\* "not inspection.consignee_name or not inspection.consignee_designation"
ConsigneeMissing(c) == c.consignee_name = "" \/ c.consignee_designation = ""

\* a certificate request, its actor and its outcome
CertCall(u, op, ok, c) ==
    [op |-> op, ok |-> ok, entry |-> c, accepted |-> {}, rejected |-> {}, user |-> u]

\* what every certificate request leaves alone but for the stock it creates
CertFrame == UNCHANGED <<locations, instances, entries, movements, inventory, reqs>>

\* POST inspection-certificates/ (perform_create and the serializer's create)
CreateCertificate(u, dept, hdr, items) ==
    /\ Len(certs) < MaxCerts
    /\ CertHasPermission(u, "create")
    /\ locations[dept].is_standalone
    /\ \A f \in HeaderFields : HeaderAccepted(hdr[f])
    /\ \A k \in DOMAIN items :
          items[k].accepted_quantity + items[k].rejected_quantity
              <= items[k].tendered_quantity
    /\ Profile(u).role /= SYSTEM_ADMIN => has_location_access(u, dept)
    /\ get_main_store(dept) /= NoLoc
    /\ certs' = Append(certs, CertRow(dept, hdr, items))
    /\ last' = CertCall(u, "create_certificate", TRUE, Len(certs) + 1)
    /\ CertFrame

\* PATCH inspection-certificates/{c}/ (partial_update)
UpdateCertificate(u, c, d) ==
    /\ c \in 1..Len(certs)
    /\ d /= NoData
    /\ CertAccess(u, "update", certs[c])
    /\ CertDataValid(u, certs[c], d)
    /\ certs' = [certs EXCEPT ![c] = CertUpdate(u, @, d)]
    /\ last' = CertCall(u, "update_certificate", TRUE, c)
    /\ CertFrame

\* POST inspection-certificates/{c}/submit_to_stock_incharge/
SubmitToStockIncharge(u, c, d) ==
    /\ c \in 1..Len(certs)
    /\ CertAccess(u, "submit_to_stock_incharge", certs[c])
    /\ certs[c].stage = INITIATED
    /\ get_main_store(certs[c].department) /= NoLoc
    /\ d /= NoData => CertDataValid(u, certs[c], d)
    /\ LET c1 == WithData(u, certs[c], d)
       IN  certs' = [certs EXCEPT ![c] =
                transition_stage(c1, IF is_root_department(c1)
                                     THEN CENTRAL_REGISTER ELSE STOCK_DETAILS,
                                 u, NoVal)]
    /\ last' = CertCall(u, "submit_to_stock_incharge", TRUE, c)
    /\ CertFrame

\* POST inspection-certificates/{c}/submit_stock_details/: a 400 answered
\* after serializer.save() leaves the saved data in place
SubmitStockDetails(u, c, d) ==
    /\ c \in 1..Len(certs)
    /\ CertAccess(u, "submit_stock_details", certs[c])
    /\ certs[c].stage = STOCK_DETAILS
    /\ ~is_root_department(certs[c])
    /\ d /= NoData => CertDataValid(u, certs[c], d)
    /\ LET c1 == WithData(u, certs[c], d)
           ok == Len(c1.inspection_items) /= 0 /\ HasStockRegister(c1)
       IN  /\ certs' = [certs EXCEPT ![c] =
                IF ok THEN transition_stage(c1, CENTRAL_REGISTER, u, NoVal) ELSE c1]
           /\ last' = CertCall(u, "submit_stock_details", ok, c)
    /\ CertFrame

\* POST inspection-certificates/{c}/submit_central_register/
SubmitCentralRegister(u, c, d) ==
    /\ c \in 1..Len(certs)
    /\ CertAccess(u, "submit_central_register", certs[c])
    /\ certs[c].stage = CENTRAL_REGISTER
    /\ d /= NoData => CertDataValid(u, certs[c], d)
    /\ LET c1 == WithData(u, certs[c], d)
           ok == /\ HasCentralRegister(c1)
                 /\ is_root_department(c1) => ~ConsigneeMissing(c1)
       IN  /\ certs' = [certs EXCEPT ![c] =
                IF ok THEN transition_stage(c1, AUDIT_REVIEW, u, NoVal) ELSE c1]
           /\ last' = CertCall(u, "submit_central_register", ok, c)
    /\ CertFrame

\* (variant: one instance per tendered unit)
StockFromItem_tendered(db, c, it, main_store) ==
    IF it.tendered_quantity <= 0 THEN db
    ELSE LET made == AutoCreateInstancesFor(db, it.tendered_quantity, it.item,
                                            main_store, c)
             db1  == CreateEntry(made, EntryRow("RECEIPT", "COMPLETED", NoLoc,
                         main_store, it.item, it.tendered_quantity,
                         (Len(db.inst) + 1)..Len(made.inst), 0, FALSE, c))
         IN  update_quantities(db1, main_store, it.item)

\* InspectionCertificateViewSet._create_stock_from_inspection, one item
StockFromItem(db, c, it, main_store) ==
    IF it.accepted_quantity <= 0 THEN db
    ELSE LET made == AutoCreateInstancesFor(db, it.accepted_quantity, it.item,
                                            main_store, c)
             db1  == CreateEntry(made, EntryRow("RECEIPT", "COMPLETED", NoLoc,
                         main_store, it.item, it.accepted_quantity,
                         (Len(db.inst) + 1)..Len(made.inst), 0, FALSE, c))
         IN  update_quantities(db1, main_store, it.item)

\* "for insp_item in inspection.inspection_items.all()"
RECURSIVE create_stock_from_inspection(_, _, _, _, _)
create_stock_from_inspection(db, c, items, k, main_store) ==
    IF k > Len(items) THEN db
    ELSE create_stock_from_inspection(StockFromItem(db, c, items[k], main_store),
                                      c, items, k + 1, main_store)

\* instances and entries the completion of certificate row c would add
RECURSIVE AcceptedTotal(_, _)
AcceptedTotal(items, k) ==
    IF k > Len(items) THEN 0
    ELSE items[k].accepted_quantity + AcceptedTotal(items, k + 1)

\* POST inspection-certificates/{c}/submit_audit_review/
SubmitAuditReview(u, c, d) ==
    /\ c \in 1..Len(certs)
    /\ CertAccess(u, "submit_audit_review", certs[c])
    /\ certs[c].stage = AUDIT_REVIEW
    /\ get_main_store(certs[c].department) /= NoLoc
    /\ d /= NoData => CertDataValid(u, certs[c], d)
    /\ LET main_store == get_main_store(certs[c].department)
           c1 == WithData(u, certs[c], d)
           ok == HasCentralRegister(c1) /\ ~ConsigneeMissing(c1)
       IN  /\ ok => /\ Len(instances) + AcceptedTotal(c1.inspection_items, 1) <= MaxInst
                    /\ Len(entries) + Len(c1.inspection_items) <= MaxEntries
           /\ certs' = [certs EXCEPT ![c] =
                IF ok THEN transition_stage(c1, COMPLETED, u, NoVal) ELSE c1]
           /\ IF ok
              THEN Commit(create_stock_from_inspection(DB, c, c1.inspection_items,
                                                       1, main_store))
              ELSE UNCHANGED <<instances, entries, movements, inventory>>
           /\ last' = CertCall(u, "submit_audit_review", ok, c)
    /\ UNCHANGED <<locations, reqs>>

\* (variant: the reason is not looked at)
ReasonGiven_any(reason) == TRUE

\* "reason = request.data.get('reason'); if not reason: ... 400"
ReasonGiven(reason) == reason \notin {Absent, ""}

\* POST inspection-certificates/{c}/reject/
RejectCertificate(u, c, reason) ==
    /\ c \in 1..Len(certs)
    /\ CertAccess(u, "reject", certs[c])
    /\ ReasonGiven(reason)
    /\ certs[c].stage \notin {COMPLETED, REJECTED}
    /\ certs' = [certs EXCEPT ![c] = transition_stage(@, REJECTED, u, reason)]
    /\ last' = CertCall(u, "reject", TRUE, c)
    /\ CertFrame

\* ---------------------------------------------------------------- behaviour
NoCall == Call("none", TRUE, 0, {}, {})

Init ==
    /\ locations = InitLocations
    /\ instances = <<>>
    /\ entries = <<>>
    /\ movements = <<>>
    /\ inventory = [k \in {} |-> 0]
    /\ certs = <<>>
    /\ reqs = {}
    /\ last = NoCall

\* ------------------------------------------------------------ request inputs
StockUsers   == {"admin", "sD", "sU"}          \* actors of stock-entry requests
IdLists      == SUBSET AllInstIds              \* id lists of a request
ReceiptFroms == {NoLoc}                        \* from_location of a posted RECEIPT
EntryLocs    == {"U", "US", "D", "DS"}         \* from/to locations of a request

\* The steps take the sets their inputs are drawn from.  The cheap conditions
\* of a handler are repeated ahead of the choice of its remaining inputs, so
\* that requests refused at once are not enumerated.
IssueStep(users, lists, temps) ==
    /\ Len(entries) < MaxEntries
    /\ \E insts \in lists \ {{}} :
        /\ insts \subseteq 1..Len(instances)
        /\ validate_instances(insts)
        /\ \E from \in EntryLocs :
            /\ locations[from].is_store
            /\ \E u \in users, to \in EntryLocs, item \in Items, temp \in temps :
                CreateIssue(u, from, to, item, insts, temp)

ReceiptStep(users, lists, qtys) ==
    /\ Len(entries) < MaxEntries
    /\ \E to \in EntryLocs :
        /\ locations[to].is_store
        /\ \E insts \in lists :
            /\ insts \subseteq 1..Len(instances)
            /\ \E u \in users, from \in ReceiptFroms, item \in Items,
                  qty \in qtys :
                CreateReceipt(u, from, to, item, insts, qty, insts = {})

AcknowledgeReceiptStep(users, lists) ==
    /\ Len(entries) < MaxEntries
    /\ \E e \in 1..Len(entries) :
        /\ ReceiptStillPending(e)
        /\ \E u \in users, acc \in lists, rej \in lists :
            AcknowledgeReceipt(u, e, acc, rej)

AcknowledgeReturnStep(users, lists) ==
    /\ Len(entries) < MaxEntries
    /\ \E e \in 1..Len(entries) :
        /\ ReturnStillPending(e)
        /\ \E u \in users, ids \in lists :
            AcknowledgeReturn(u, e, ids)

RefusedStep(users) ==
    \/ \E u \in users, e \in 1..Len(entries), acc \in {{}, {1}} :
        AcknowledgeReceiptRefused(u, e, acc, {})
    \/ \E u \in users, e \in 1..Len(entries), ids \in {{}, {1}} :
        AcknowledgeReturnRefused(u, e, ids)

Next ==
    \/ IssueStep(StockUsers, IdLists, BOOLEAN)
    \/ ReceiptStep(StockUsers, IdLists, AllInstIds)
    \/ AcknowledgeReceiptStep(StockUsers, IdLists)
    \/ AcknowledgeReturnStep(StockUsers, IdLists)

Spec == Init /\ [][Next]_vars

\* The transfers of whole lots with the refused acknowledgments as steps of
\* their own: receipts of new instances, issues, acknowledgments that accept or
\* reject everything that was issued.
ErrUsers == {"admin", "sD"}
WholeLots == {{}, AllInstIds}

NextErr ==
    \/ IssueStep(ErrUsers, IdLists, {FALSE})
    \/ ReceiptStep(ErrUsers, {{}}, AllInstIds)
    \/ AcknowledgeReceiptStep(ErrUsers, WholeLots)
    \/ AcknowledgeReturnStep(ErrUsers, WholeLots)
    \/ RefusedStep(ErrUsers)

SpecErr == Init /\ [][NextErr]_vars

\* ------------------------------------------------------ certificate workflow
CertUsers == UserIds
Departments == {l \in LocIds : InitLocations[l].is_standalone}
Quantities == 0..MaxInst
CertItems ==
    {<<>>} \cup {<<ItemRow(i, q[1], q[2], q[3])>> :
                    i \in Items, q \in {MaxInst} \X Quantities \X {0, 1}}
Header(contract_no) ==
    [contractor_name |-> "k", contract_no |-> contract_no,
     indenter |-> "k", date |-> "k"]
CertHeaders == {Header("k"), Header("")}
Reasons == {Absent, "", "r"}
CertRequests ==
    {NoData,
     Data("U", Absent, Absent, Absent), Data("D", Absent, Absent, Absent),
     Data(Absent, "c", Absent, Absent),
     Data(Absent, Absent, "s", Absent),
     Data(Absent, Absent, Absent, "r"), Data(Absent, Absent, Absent, ""),
     [NoData EXCEPT !.contract_no = ""],
     [NoData EXCEPT !.tendered_quantity = 0],
     [NoData EXCEPT !.accepted_quantity = 1]}

NextCert ==
    \/ \E u \in CertUsers, dept \in Departments, hdr \in CertHeaders,
          items \in CertItems :
          CreateCertificate(u, dept, hdr, items)
    \/ \E u \in CertUsers, c \in 1..MaxCerts, d \in CertRequests :
          UpdateCertificate(u, c, d)
    \/ \E u \in CertUsers, c \in 1..MaxCerts, d \in CertRequests :
          SubmitToStockIncharge(u, c, d)
    \/ \E u \in CertUsers, c \in 1..MaxCerts, d \in CertRequests :
          SubmitStockDetails(u, c, d)
    \/ \E u \in CertUsers, c \in 1..MaxCerts, d \in CertRequests :
          SubmitCentralRegister(u, c, d)
    \/ \E u \in CertUsers, c \in 1..MaxCerts, d \in CertRequests :
          SubmitAuditReview(u, c, d)
    \/ \E u \in CertUsers, c \in 1..MaxCerts, reason \in Reasons :
          RejectCertificate(u, c, reason)

SpecCert == Init /\ [][NextCert]_vars

\* ------------------------------------------------- interleaved acknowledgments
\* Two requests run the same handler side by side.  get_object() reads the
\* entry without select_for_update, so a request passes its checks against the
\* rows committed at that moment (ReadEntry) and writes later (WriteReceipt,
\* WriteReturn); nothing is re-read in between.  A request that was admitted
\* is always finished: the bound on the entries applies to admission.
Slots == 1..MaxReq

Request(slot, op, e, acc, rej) ==
    [slot |-> slot, op |-> op, entry |-> e, accepted |-> acc, rejected |-> rej]

FreeSlots == Slots \ {r.slot : r \in reqs}

\* get_object() and the early returns of either handler
ReadEntry(u, op, e, acc, rej) ==
    /\ FreeSlots /= {}
    /\ e \in 1..Len(entries)
    /\ IF op = "acknowledge_receipt"
       THEN AcknowledgeReceiptChecks(u, e, acc, rej)
       ELSE rej = {} /\ AcknowledgeReturnChecks(u, e, acc)
    /\ reqs' = reqs \cup {Request(CHOOSE n \in FreeSlots : \A m \in FreeSlots : n <= m,
                                  op, e, acc, rej)}
    /\ UNCHANGED <<locations, instances, entries, movements, inventory, certs, last>>

\* the rest of acknowledge_receipt, from "if accepted_ids:" to the response
WriteReceipt(r) ==
    /\ r.op = "acknowledge_receipt"
    /\ Commit(AcknowledgeReceiptWrites(DB, r.entry, r.accepted, r.rejected))
    /\ reqs' = reqs \ {r}
    /\ last' = Call(r.op, TRUE, r.entry, r.accepted, r.rejected)
    /\ UNCHANGED <<locations, certs>>

\* the rest of acknowledge_return, from the RECEIPT entry to the response
WriteReturn(r) ==
    /\ r.op = "acknowledge_return"
    /\ Commit(AcknowledgeReturnWrites(DB, r.entry, r.accepted))
    /\ reqs' = reqs \ {r}
    /\ last' = Call(r.op, TRUE, r.entry, r.accepted, {})
    /\ UNCHANGED <<locations, certs>>

ReadStep(users, lists) ==
    /\ Len(entries) < MaxEntries
    /\ \E e \in 1..Len(entries) :
        /\ entries[e].status = "PENDING_ACK"
        /\ \E u \in users, acc \in lists, rej \in lists :
            \/ ReadEntry(u, "acknowledge_receipt", e, acc, rej)
            \/ rej = {} /\ acc /= {} /\ ReadEntry(u, "acknowledge_return", e, acc, rej)

NextConc ==
    \/ IssueStep(ErrUsers, WholeLots, {FALSE})
    \/ ReceiptStep(ErrUsers, {{}}, {MaxInst})
    \/ ReadStep(ErrUsers, WholeLots)
    \/ \E r \in reqs : WriteReceipt(r)
    \/ \E r \in reqs : WriteReturn(r)

SpecConc == Init /\ [][NextConc]_vars

\* ===================================================================== claims
\* C1: after a successful acknowledge_receipt on a PENDING_ACK ISSUE entry,
\* whatever id lists were passed, every accepted instance is owned by and
\* located at entry.to_location and IN_STORE, every rejected instance keeps
\* the owner it had and is IN_TRANSIT, and exactly one new PENDING_ACK RETURN
\* entry references the rejected instances.
C1_ReceiptOutcome ==
    [][(/\ last'.op = "acknowledge_receipt"
        /\ last'.ok
        /\ entries[last'.entry].entry_type = "ISSUE")
       => LET e   == last'.entry
              to  == entries[e].to_location
              acc == last'.accepted \cap 1..Len(instances)
              rej == last'.rejected \cap 1..Len(instances)
          IN  /\ \A i \in acc :
                    /\ instances'[i].source_location = to
                    /\ instances'[i].current_location = to
                    /\ instances'[i].current_status = IN_STORE
              /\ \A i \in rej :
                    /\ instances'[i].source_location = instances[i].source_location
                    /\ instances'[i].current_status = IN_TRANSIT
              /\ rej /= {} =>
                    Cardinality({r \in (Len(entries) + 1)..Len(entries') :
                        /\ entries'[r].entry_type = "RETURN"
                        /\ entries'[r].status = "PENDING_ACK"
                        /\ entries'[r].reference_entry = e
                        /\ entries'[r].instances = rej}) = 1]_vars

\* C2: after a successful acknowledge_return, whatever id list was passed,
\* every instance of the RETURN entry is IN_STORE at the entry's to_location
\* and the RETURN entry is COMPLETED.
C2_ReturnOutcome ==
    (last.op = "acknowledge_return" /\ last.ok)
    => /\ entries[last.entry].status = "COMPLETED"
       /\ \A i \in entries[last.entry].instances :
            /\ instances[i].current_status = IN_STORE
            /\ instances[i].current_location = entries[last.entry].to_location

\* C3: acknowledge_receipt or acknowledge_return on an entry whose status is
\* COMPLETED is refused and writes no StockEntry, ItemInstance,
\* InstanceMovement or LocationInventory row.
C3_CompletedRefused ==
    [][(/\ last'.op \in {"acknowledge_receipt", "acknowledge_return"}
        /\ last'.entry \in 1..Len(entries)
        /\ entries[last'.entry].status = "COMPLETED")
       => /\ ~last'.ok
          /\ UNCHANGED <<instances, entries, movements, inventory>>]_vars

C3_Witness ==
    /\ last.op = "acknowledge_receipt"
    /\ ~last.ok
    /\ entries[last.entry].entry_type = "ISSUE"
    /\ entries[last.entry].status = "COMPLETED"
    /\ \E r \in 1..Len(entries) : entries[r].reference_entry = last.entry

\* C4: acknowledge_receipt takes effect only on an entry of type ISSUE.
C4_ReceiptOnlyOnIssue ==
    (last.op = "acknowledge_receipt" /\ last.ok)
    => entries[last.entry].entry_type = "ISSUE"

\* C5: of the acknowledgments of one entry at most one takes effect, also
\* when two requests interleave: at most one RECEIPT entry and at most one
\* RETURN entry refer to it.
C5_AtMostOneTakesEffect ==
    \A e \in 1..Len(entries) : \A t \in {"RECEIPT", "RETURN"} :
        Cardinality({r \in 1..Len(entries) :
            /\ entries[r].reference_entry = e
            /\ entries[r].entry_type = t}) <= 1

\* C6: an instance that was rejected and waits in a PENDING_ACK RETURN entry
\* becomes IN_STORE only by a successful acknowledge_return on that entry,
\* the second acknowledgment of its transfer.
C6_TwoAcknowledgments ==
    [][\A i \in 1..Len(instances) :
        \A r \in 1..Len(entries) :
            (/\ entries[r].entry_type = "RETURN"
             /\ entries[r].status = "PENDING_ACK"
             /\ i \in entries[r].instances
             /\ instances[i].current_status = IN_TRANSIT
             /\ instances'[i].current_status = IN_STORE)
            => /\ last'.op = "acknowledge_return"
               /\ last'.ok
               /\ last'.entry = r]_vars

\* C7: processing an ISSUE entry leaves the owner of every referenced instance
\* unchanged; towards a store the instances become IN_TRANSIT and the entry
\* PENDING_ACK, otherwise the instances become TEMPORARY_ISSUED (temporary
\* issue) or IN_USE and the entry COMPLETED.
C7_IssueProcessing ==
    [][last'.op = "issue"
       => LET se == entries'[last'.entry]
          IN  \A i \in se.instances :
                /\ instances'[i].source_location = instances[i].source_location
                /\ IF locations[se.to_location].is_store
                   THEN /\ instances'[i].current_status = IN_TRANSIT
                        /\ se.status = "PENDING_ACK"
                   ELSE /\ instances'[i].current_status =
                              (IF se.is_temporary THEN TEMPORARY_ISSUED ELSE IN_USE)
                        /\ se.status = "COMPLETED"]_vars

C7_Witness ==
    /\ last.op = "issue"
    /\ \E a \in 1..Len(entries), b \in 1..Len(entries) :
        /\ entries[a].entry_type = "ISSUE"
        /\ entries[a].status = "PENDING_ACK"
        /\ \A i \in entries[a].instances : instances[i].current_status = IN_TRANSIT
        /\ entries[b].entry_type = "ISSUE"
        /\ entries[b].status = "COMPLETED"
        /\ ~locations[entries[b].to_location].is_store
        /\ \E i \in entries[b].instances :
              instances[i].current_status \in {IN_USE, TEMPORARY_ISSUED}

C9_TotalsMatchOwners ==
    \A k \in DOMAIN inventory :
        inventory[k].total_quantity =
            Cardinality({i \in 1..Len(instances) :
                /\ instances[i].source_location = k[1]
                /\ instances[i].item = k[2]})


\* the stages a certificate has been in: INITIATED, then each to_stage
StagesOf(c) ==
    <<INITIATED>> \o [k \in 1..Len(c.stage_history) |-> c.stage_history[k].to_stage]

NonRootPath == <<INITIATED, STOCK_DETAILS, CENTRAL_REGISTER, AUDIT_REVIEW, COMPLETED>>
RootPath == <<INITIATED, CENTRAL_REGISTER, AUDIT_REVIEW, COMPLETED>>

FollowsPath(stages, path) ==
    \/ IsPrefix(stages, path)
    \/ /\ stages[Len(stages)] = REJECTED
       /\ Len(stages) - 1 < Len(path)
       /\ IsPrefix(SubSeq(stages, 1, Len(stages) - 1), path)

\* C10: the stages a certificate has passed through, INITIATED followed by
\* the to_stage of every history record, are for a certificate whose
\* department is not the root a prefix of INITIATED, STOCK_DETAILS,
\* CENTRAL_REGISTER, AUDIT_REVIEW, COMPLETED, optionally ended by REJECTED,
\* and for a certificate whose department is the root the same without
\* STOCK_DETAILS; every history record starts where the previous one ended,
\* so no stage is skipped or repeated and nothing leaves COMPLETED or REJECTED.
C10_StagePath ==
    \A c \in 1..Len(certs) :
        /\ certs[c].stage = StagesOf(certs[c])[Len(StagesOf(certs[c]))]
        /\ IF is_root_department(certs[c])
           THEN FollowsPath(StagesOf(certs[c]), RootPath)
           ELSE FollowsPath(StagesOf(certs[c]), NonRootPath)

\* the certificate was created for the root department
RootAtCreation(c) == locations[c.created_department].parent_location = NoLoc

\* C11: the path of a certificate is the one of the department it was
\* created for, whatever department it names later: it leaves INITIATED for
\* CENTRAL_REGISTER when that department is the root and for STOCK_DETAILS
\* when it is not, only a certificate created for a non-root department
\* goes from STOCK_DETAILS to CENTRAL_REGISTER, and a certificate created
\* for the root enters AUDIT_REVIEW only with its consignee fields filled.
C11_PathFixedAtCreation ==
    [][\A c \in 1..Len(certs) :
          /\ (certs[c].stage = INITIATED
                  /\ certs'[c].stage \in {STOCK_DETAILS, CENTRAL_REGISTER})
                => certs'[c].stage = IF RootAtCreation(certs[c])
                                     THEN CENTRAL_REGISTER ELSE STOCK_DETAILS
          /\ (certs[c].stage = STOCK_DETAILS /\ certs'[c].stage = CENTRAL_REGISTER)
                => ~RootAtCreation(certs[c])
          /\ (certs[c].stage = CENTRAL_REGISTER /\ certs'[c].stage = AUDIT_REVIEW
                  /\ RootAtCreation(certs[c]))
                => ~ConsigneeMissing(certs'[c])]_vars

\* the rows a step appends to a table
NewRows(old, new) == (Len(old) + 1)..Len(new)

\* the items of a certificate that were accepted in part or in whole
AcceptedItems(c) ==
    {k \in DOMAIN c.inspection_items : c.inspection_items[k].accepted_quantity > 0}

\* what C12 says of a completion whose instances belong in main_store
CompletionCreates(c, main_store) ==
    /\ certs'[c].stage = COMPLETED
    /\ Len(instances') - Len(instances) = AcceptedTotal(certs'[c].inspection_items, 1)
    /\ \A i \in NewRows(instances, instances') :
          /\ instances'[i].source_location = main_store
          /\ instances'[i].current_location = main_store
          /\ instances'[i].current_status = IN_STORE
          /\ \E e \in NewRows(entries, entries') : i \in entries'[e].instances
    /\ \A e \in NewRows(entries, entries') :
          /\ entries'[e].entry_type = "RECEIPT"
          /\ entries'[e].status = "COMPLETED"
          /\ entries'[e].to_location = main_store
          /\ entries'[e].instances \subseteq NewRows(instances, instances')
    /\ \A k \in AcceptedItems(certs'[c]) :
          \E e \in NewRows(entries, entries') :
              /\ entries'[e].item = certs'[c].inspection_items[k].item
              /\ Cardinality(entries'[e].instances)
                    = certs'[c].inspection_items[k].accepted_quantity
    /\ Len(entries') - Len(entries) = Cardinality(AcceptedItems(certs'[c]))

CompletionDone == last'.op = "submit_audit_review" /\ last'.ok

TransitionRequests ==
    {"submit_to_stock_incharge", "submit_stock_details", "submit_central_register",
     "submit_audit_review", "reject"}

\* C13: a transition request that fails a precondition persists nothing:
\* the certificates and their items are after the request what they were
\* before it.
C13_FailedTransitionWritesNothing ==
    [][(last'.op \in TransitionRequests /\ ~last'.ok) => certs' = certs]_vars

Terminal == {COMPLETED, REJECTED}
MayReject(u) == Profile(u).role \in {AUDITOR, SYSTEM_ADMIN}

\* C14: a reject request succeeds exactly when its actor is an auditor or
\* an administrator, the certificate is in neither COMPLETED nor REJECTED
\* and the reason is not empty: such a request can always be made, and a
\* reject that succeeded was such a request; it leaves the certificate in
\* REJECTED with one more history record, from the stage it was in, and
\* with that stage as rejection_stage.
C14_Reject ==
    [][/\ \A u \in UserIds, c \in 1..Len(certs) :
             (MayReject(u) /\ certs[c].stage \notin Terminal)
                => ENABLED RejectCertificate(u, c, "r")
       /\ (last'.op = "reject" /\ last'.ok) =>
             LET old == certs[last'.entry]
                 new == certs'[last'.entry]
             IN  /\ MayReject(last'.user)
                 /\ old.stage \notin Terminal
                 /\ new.rejection_reason \notin {NoVal, Absent, ""}
                 /\ new.stage = REJECTED
                 /\ new.stage_history =
                        Append(old.stage_history,
                               [from_stage |-> old.stage, to_stage |-> REJECTED])
                 /\ new.rejection_stage = old.stage]_vars

\* a certificate rejected by the auditor while under central registration
C14_Witness ==
    /\ last.op = "reject" /\ last.ok /\ last.user = "aud"
    /\ certs[last.entry].stage = REJECTED
    /\ certs[last.entry].rejection_stage = CENTRAL_REGISTER

\* C15: a certificate in COMPLETED or REJECTED is never written again: no
\* step, by any actor, changes any field of the certificate or of its items.
C15_TerminalImmutable ==
    [][\A c \in 1..Len(certs) :
          certs[c].stage \in Terminal => certs'[c] = certs[c]]_vars

\* the main store of the root location, and its custodians
CentralStore ==
    get_main_store(CHOOSE l \in LocIds : locations[l].parent_location = NoLoc)
CentralCustodian(u) ==
    Profile(u).role = STOCK_INCHARGE /\ CentralStore \in Profile(u).assigned_locations

\* the custodians of the store of the department of certificate row c
DepartmentStoreCustodian(u, c) ==
    /\ Profile(u).role = STOCK_INCHARGE
    /\ get_main_store(c.department) \in Profile(u).assigned_locations

\* C16: a submit_stock_details that succeeds (STOCK_DETAILS to
\* CENTRAL_REGISTER) was made by a custodian of the store of the
\* certificate's department who is not a custodian of the central store.
\* (The administrator, whom every permission check lets through, is left
\* aside.)
C16_DepartmentStoreCustodian ==
    [][(/\ last'.op = "submit_stock_details" /\ last'.ok
        /\ Profile(last'.user).role /= SYSTEM_ADMIN) =>
          /\ DepartmentStoreCustodian(last'.user, certs[last'.entry])
          /\ ~CentralCustodian(last'.user)]_vars

\* an item of certificate row c carries a central register number that is
\* neither null nor empty
CentralReferenceFilled(c) ==
    \E k \in DOMAIN c.inspection_items :
        c.inspection_items[k].central_register_no \notin {NoVal, ""}

\* C17: a submit_central_register that succeeds (CENTRAL_REGISTER to
\* AUDIT_REVIEW) leaves a certificate one of whose items carries a central
\* register number that is neither null nor the empty string, and, when the
\* certificate's department is the root, whose consignee name and
\* designation are both filled.
C17_CentralRegisterFilled ==
    [][(last'.op = "submit_central_register" /\ last'.ok) =>
          LET new == certs'[last'.entry]
          IN  /\ CentralReferenceFilled(new)
              /\ is_root_department(new) => ~ConsigneeMissing(new)]_vars

\* C18: a submit_central_register that succeeds (CENTRAL_REGISTER to
\* AUDIT_REVIEW) was made by a custodian of the central store, the main
\* store of the root location; the custodian of another location's main
\* store does not get through.  (The administrator, whom every permission
\* check lets through, is left aside.)
C18_CentralCustodian ==
    [][(/\ last'.op = "submit_central_register" /\ last'.ok
        /\ Profile(last'.user).role /= SYSTEM_ADMIN) =>
          CentralCustodian(last'.user)]_vars

\* the header of certificate row c is filled
HeaderFilled(c) == \A f \in HeaderFields : c[f] \notin {NoVal, Absent, ""}

\* u is the head of location l / of l or of a location above l
HeadOf(u, l) ==
    Profile(u).role = LOCATION_HEAD /\ l \in Profile(u).assigned_locations
HeadOver(u, l) ==
    /\ Profile(u).role = LOCATION_HEAD
    /\ \E k \in DOMAIN locations[l].hierarchy_path :
          locations[l].hierarchy_path[k] \in Profile(u).assigned_locations

\* a submit_to_stock_incharge that succeeded, as the step's second state
Submitted == last'.op = "submit_to_stock_incharge" /\ last'.ok

\* C19 as stated: a submit_to_stock_incharge that succeeds (INITIATED to
\* STOCK_DETAILS or CENTRAL_REGISTER) was made by the head of the
\* certificate's department, and leaves a certificate whose contractor,
\* contract number, indenter and date are all filled.
C19_CustodianHead ==
    [][Submitted =>
          /\ HeadOf(last'.user, certs[last'.entry].department)
          /\ HeaderFilled(certs'[last'.entry])]_vars

\* C19, amended: a submit_to_stock_incharge that succeeds was made by the
\* head of the certificate's department or of a location above it, or by
\* an administrator, and leaves a certificate whose contractor, contract
\* number, indenter and date are all filled.
C19_HeadWithAccess ==
    [][Submitted =>
          /\ \/ HeadOver(last'.user, certs[last'.entry].department)
             \/ Profile(last'.user).role = SYSTEM_ADMIN
          /\ HeaderFilled(certs'[last'.entry])]_vars

\* the head of the root location has submitted a certificate of department D
C19_Witness ==
    /\ last.op = "submit_to_stock_incharge" /\ last.ok /\ last.user = "hU"
    /\ certs[last.entry].department = "D"
    /\ certs[last.entry].created_department = "D"
    /\ certs[last.entry].stage = STOCK_DETAILS
    /\ HeaderFilled(certs[last.entry])

\* C20: in every reachable state, the accepted and the rejected quantity of
\* every item of every certificate together do not exceed its tendered
\* quantity.
C20_QuantitiesWithinTendered ==
    \A c \in 1..Len(certs) : \A k \in DOMAIN certs[c].inspection_items :
        LET it == certs[c].inspection_items[k]
        IN  it.accepted_quantity + it.rejected_quantity <= it.tendered_quantity

\* ------------------------------------------------- Location tree maintenance
\* POST, PUT and PATCH of locations/: LocationViewSet with LocationSerializer,
\* Location.save and the post_save signal.  A row's key is its code.
MaxLocs == 4   \* Location rows that may ever exist
MaxPath == 3   \* codes in a hierarchy_path

\* "data.get(key, default)"
Get(d, key, default) == IF key \in DOMAIN d THEN d[key] ELSE default

\* UserProfile.can_create_location
can_create_location(u, parent) ==
    IF Profile(u).role = SYSTEM_ADMIN THEN TRUE
    ELSE IF parent = NoLoc THEN FALSE
    ELSE IF Profile(u).role \in {LOCATION_HEAD, STOCK_INCHARGE}
         THEN has_location_access(u, parent)
    ELSE FALSE

\* LocationSerializer.get_allowed_location_types
get_allowed_location_types(l) ==
    IF ~locations[l].is_standalone THEN {}
    ELSE IF locations[l].parent_location = NoLoc
         THEN {DEPARTMENT, BUILDING, "JUNKYARD", OFFICE, "OTHER"}
    ELSE IF locations[l].location_type \in {DEPARTMENT, BUILDING}
         THEN {STORE, ROOM, "LAB", OFFICE, "AV_HALL", "AUDITORIUM"}
    ELSE IF locations[l].location_type = OFFICE THEN {STORE, ROOM}
    ELSE IF locations[l].location_type = "OTHER" THEN {STORE, ROOM, "LAB"}
    ELSE {STORE, ROOM}

\* the attributes LocationSerializer.validate returns: for location_type
\* STORE it sets is_store and clears is_standalone
Validated(d) ==
    IF Get(d, "location_type", NoVal) = STORE
    THEN [k \in DOMAIN d \cup {"is_store", "is_standalone"} |->
            IF k = "is_store" THEN TRUE
            ELSE IF k = "is_standalone" THEN FALSE ELSE d[k]]
    ELSE d

\* LocationSerializer.validate: FALSE when it raises
LocationDataValid(u, d) ==
    LET parent == Get(d, "parent_location", NoLoc)
        v      == Validated(d)
    IN  /\ parent /= NoLoc => parent \in DOMAIN locations
        /\ can_create_location(u, parent)
        /\ ~(Get(v, "is_store", FALSE) /\ Get(v, "is_standalone", FALSE))
        /\ parent /= NoLoc =>
              Get(d, "location_type", NoVal) \in get_allowed_location_types(parent)
        /\ parent = NoLoc =>
              /\ Profile(u).role = SYSTEM_ADMIN
              /\ Get(v, "is_standalone", FALSE)

\* HasLocationAccess.has_permission for create, update and partial_update
LocationHasPermission(u) ==
    Profile(u).role \in {SYSTEM_ADMIN, AUDITOR, LOCATION_HEAD, STOCK_INCHARGE}

\* Location.save: "hierarchy_path = parent.hierarchy_path/code", or the code
PathOf(locs, code, parent) ==
    IF parent = NoLoc THEN <<code>> ELSE Append(locs[parent].hierarchy_path, code)

\* the table with row r stored under code
Stored(locs, code, r) ==
    [l \in DOMAIN locs \cup {code} |-> IF l = code THEN r ELSE locs[l]]

\* "store_code = f'{instance.code}-MAIN-STORE'"
StoreCode(code) == code \o "-MAIN-STORE"

\* every write of a request is undone when the request fails: the project
\* settings, which decide it, are not part of the sources at hand
AtomicRequests == TRUE

\* (variant: the store is created but the location is not linked to it)
auto_create_store_unlinked(locs, code) ==
    Stored(locs, StoreCode(code),
           LocationRow(code, STORE, TRUE, FALSE, TRUE, TRUE, NoLoc,
                       PathOf(locs, StoreCode(code), code)))

\* auto_create_store_for_standalone on a created standalone location that
\* is not a store: "store = Location.objects.create(...);
\* instance.auto_created_store = store; instance.save(...)"
auto_create_store_for_standalone(locs, code) ==
    LET made == Stored(locs, StoreCode(code),
                       LocationRow(code, STORE, TRUE, FALSE, TRUE, TRUE, NoLoc,
                                   PathOf(locs, StoreCode(code), code)))
    IN  [made EXCEPT ![code].auto_created_store = StoreCode(code)]

\* a location request, its actor and its outcome
LocCall(u, op, ok, code) ==
    [op |-> op, ok |-> ok, entry |-> 0, accepted |-> {}, rejected |-> {},
     user |-> u, location |-> code]

\* what a location request leaves alone
LocFrame == UNCHANGED <<instances, entries, movements, inventory, certs, reqs>>

\* the profile's locations exist
ProfileExists(u) == Profile(u).assigned_locations \subseteq DOMAIN locations

\* the row Location.save stores for the validated attributes v of a new location
NewLocation(locs, code, v) ==
    [LocationRow(Get(v, "parent_location", NoLoc), v.location_type,
                 Get(v, "is_store", FALSE), v.is_standalone,
                 Get(v, "is_main_store", FALSE), FALSE, NoLoc,
                 PathOf(locs, code, Get(v, "parent_location", NoLoc)))
        EXCEPT !.is_active = Get(v, "is_active", TRUE)]

\* POST locations/ (the serializer, perform_create, Location.save and the
\* post_save signal).  The unique code of the main store may be taken: the
\* signal then raises after the location was inserted.
CreateLocation(u, code, d) ==
    /\ ProfileExists(u)
    /\ LocationHasPermission(u)
    /\ code \notin DOMAIN locations
    /\ {"location_type", "is_standalone"} \subseteq DOMAIN d
    /\ LocationDataValid(u, d)
    /\ LET v        == Validated(d)
           inserted == Stored(locations, code, NewLocation(locations, code, v))
           signal   == v.is_standalone /\ ~Get(v, "is_store", FALSE)
           raised   == signal /\ StoreCode(code) \in DOMAIN locations
       IN  /\ Cardinality(DOMAIN locations) + (IF signal /\ ~raised THEN 2 ELSE 1)
                 <= MaxLocs
           /\ locations' =
                 IF raised THEN (IF AtomicRequests THEN locations ELSE inserted)
                 ELSE IF signal THEN auto_create_store_for_standalone(inserted, code)
                 ELSE inserted
           /\ last' = LocCall(u, "create_location", ~raised, code)
    /\ LocFrame

\* ModelSerializer.update and Location.save: "setattr(instance, attr, value)"
\* for every validated attribute, then the path from the parent's path
LocationUpdate(locs, l, v) ==
    LET set == [k \in DOMAIN locs[l] |-> IF k \in DOMAIN v THEN v[k] ELSE locs[l][k]]
    IN  [set EXCEPT !.hierarchy_path = PathOf(locs, l, set.parent_location)]

\* PUT or PATCH locations/{l}/ (update, partial_update)
UpdateLocation(u, l, d) ==
    /\ ProfileExists(u)
    /\ l \in DOMAIN locations
    /\ LocationHasPermission(u)
    /\ Profile(u).role \notin {SYSTEM_ADMIN, AUDITOR} =>
          /\ l \in get_accessible_locations(u)
          /\ has_location_access(u, l)
    /\ LocationDataValid(u, d)
    /\ Len(LocationUpdate(locations, l, Validated(d)).hierarchy_path) <= MaxPath
    /\ locations' = [locations EXCEPT ![l] = LocationUpdate(locations, l, Validated(d))]
    /\ last' = LocCall(u, "update_location", TRUE, l)
    /\ LocFrame

\* request inputs
LocUsers    == {"admin", "hD"}
LocCodes    == {"U", "D", "D-MAIN-STORE"}
LocTypes    == {ROOM}
LocParents  == DOMAIN locations \cup {NoLoc}

\* bodies of POST locations/: a standalone location, a room, an office, a
\* store, a store marked as main store, and a store marked as standalone
CreateData ==
    UNION {{[parent_location |-> p, location_type |-> DEPARTMENT, is_standalone |-> TRUE],
            [parent_location |-> p, location_type |-> ROOM, is_standalone |-> FALSE],
            [parent_location |-> p, location_type |-> OFFICE, is_standalone |-> FALSE],
            [parent_location |-> p, location_type |-> STORE, is_standalone |-> FALSE],
            [parent_location |-> p, location_type |-> STORE, is_standalone |-> FALSE,
             is_main_store |-> TRUE],
            [parent_location |-> p, location_type |-> ROOM, is_standalone |-> TRUE,
             is_store |-> TRUE]} : p \in LocParents}

\* bodies of PATCH locations/{l}/
UpdateData ==
    {[is_standalone |-> TRUE]}
    \cup {[parent_location |-> p, location_type |-> t] :
            p \in DOMAIN locations, t \in LocTypes}

InitLoc ==
    /\ locations = [l \in {} |-> NoVal]
    /\ instances = <<>>
    /\ entries = <<>>
    /\ movements = <<>>
    /\ inventory = [k \in {} |-> 0]
    /\ certs = <<>>
    /\ reqs = {}
    /\ last = NoCall

NextLoc ==
    \/ \E u \in LocUsers, code \in LocCodes, d \in CreateData : CreateLocation(u, code, d)
    \/ \E u \in LocUsers, l \in DOMAIN locations, d \in UpdateData : UpdateLocation(u, l, d)

SpecLoc == InitLoc /\ [][NextLoc]_vars

\* the rows whose parent is l
Children(l) == {k \in DOMAIN locations : locations[k].parent_location = l}

\* C21: in every reachable state a location that is a store is not
\* standalone and is the parent of no location.
C21_StoresAreLeaves ==
    \A l \in DOMAIN locations :
        locations[l].is_store => ~locations[l].is_standalone /\ Children(l) = {}

\* the active main stores of the hierarchy of l: those below l whose first
\* standalone location upward is l
MainStoresOf(l) ==
    {k \in DOMAIN locations \ {l} :
        /\ locations[k].is_active /\ locations[k].is_main_store
        /\ get_parent_standalone(k) = l}

\* C22: in every reachable state, a standalone location that is not a
\* store has exactly one active main store in its hierarchy, and that one
\* is its auto_created_store.
C22_OneMainStore ==
    \A l \in DOMAIN locations :
        (locations[l].is_standalone /\ ~locations[l].is_store) =>
            MainStoresOf(l) = {locations[l].auto_created_store}

Roots == {l \in DOMAIN locations : locations[l].parent_location = NoLoc}

\* C24: in every reachable state with at least one location, exactly one
\* location has no parent, and that location is standalone.
C24_OneRoot ==
    DOMAIN locations /= {} =>
        /\ Cardinality(Roots) = 1
        /\ \A l \in Roots : locations[l].is_standalone

\* following parent links from k reaches l within fuel steps
RECURSIVE ReachesUp(_, _, _)
ReachesUp(k, l, fuel) ==
    IF k = NoLoc \/ k \notin DOMAIN locations \/ fuel = 0 THEN FALSE
    ELSE IF k = l THEN TRUE
    ELSE ReachesUp(locations[k].parent_location, l, fuel - 1)

\* l is an ancestor of itself
OwnAncestor(l) ==
    ReachesUp(locations[l].parent_location, l, Cardinality(DOMAIN locations))

\* C25: in every reachable state no location is its own ancestor.
C25_NoCycle == \A l \in DOMAIN locations : ~OwnAncestor(l)

\* ------------------------------------------------ stock entries, edited
\* CanManageStockEntry.has_object_permission for update and partial_update
MayUpdateEntry(u, e) ==
    /\ CanManageStockEntry_has_permission(u)
    /\ EntryVisible(u, e)
    /\ \/ Profile(u).role = SYSTEM_ADMIN
       \/ /\ Profile(u).role = STOCK_INCHARGE
          /\ \/ e.from_location \in get_accessible_stores(u)
             \/ e.to_location \in get_accessible_stores(u)
             \/ e.is_upward_transfer /\ is_main_store_incharge(u)

\* ModelSerializer.update: "setattr(instance, attr, value)" for every
\* attribute sent
EntryUpdate(row, d) ==
    [k \in DOMAIN row |-> IF k \in DOMAIN d THEN d[k] ELSE row[k]]

\* PATCH stock-entries/{e}/ (partial_update) with a body that carries no
\* entry_type: StockEntrySerializer.validate then has nothing to check;
\* StockEntry.save and its post_save signal follow
UpdateEntry(u, e, d) ==
    /\ e \in 1..Len(entries)
    /\ MayUpdateEntry(u, entries[e])
    /\ "entry_type" \notin DOMAIN d
    /\ Commit(SaveEntry(DB, e, EntryUpdate(entries[e], d)))
    /\ last' = Call("update_entry", TRUE, e, {}, {})
    /\ UNCHANGED <<locations, certs, reqs>>

\* bodies of PATCH stock-entries/{e}/
EntryData ==
    {[status |-> "CANCELLED"], [quantity |-> MaxInst]}

UpdateEntryStep(users) ==
    \E u \in users, e \in 1..Len(entries), d \in EntryData : UpdateEntry(u, e, d)

EditUsers == {"admin"}

NextEdit ==
    \/ IssueStep(EditUsers, WholeLots, {FALSE})
    \/ ReceiptStep(EditUsers, {{}}, {MaxInst})
    \/ AcknowledgeReceiptStep(EditUsers, WholeLots)
    \/ AcknowledgeReturnStep(EditUsers, WholeLots)
    \/ UpdateEntryStep(ErrUsers)

SpecEdit == Init /\ [][NextEdit]_vars

\* the attributes of a stock entry that its completion or cancellation freezes
Frozen(e) ==
    <<e.status, e.from_location, e.to_location, e.quantity, e.instances,
      e.reference_entry>>

\* C26: a stock entry whose status is COMPLETED or CANCELLED keeps its
\* status, locations, quantity, instances and reference_entry in every step.
C26_ClosedEntryImmutable ==
    [][\A e \in 1..Len(entries) :
          entries[e].status \in {"COMPLETED", "CANCELLED"} =>
              Frozen(entries'[e]) = Frozen(entries[e])]_vars

\* C27: every ISSUE stored from a main store towards the standalone location
\* above its own (the location itself or its main store) is stored with that
\* location's main store as to_location and is left PENDING_ACK.
C27_UpwardIssueResolved ==
    [][(last'.op = "issue" /\ last'.ok /\ Len(entries') = Len(entries) + 1) =>
          LET e   == entries'[Len(entries')]
              psi == get_parent_standalone_for_issuance(e.from_location)
          IN  (psi /= NoLoc /\ e.to_location \in {psi, get_main_store(psi)}) =>
                  /\ e.to_location = get_main_store(psi)
                  /\ e.status = "PENDING_ACK"]_vars

\* ------------------------------------------------ transfers between locations
\* the parent walks of every location end
Acyclic == \A l \in DOMAIN locations : ~OwnAncestor(l)

\* C28 (as stated): can_transfer_to(from, to) is true when from and to have
\* the same nearest standalone ancestor, and true when from is a main store
\* and to is the main store of the standalone location above from's own.
C28_CanTransfer ==
    Acyclic =>
        \A from \in DOMAIN locations, to \in DOMAIN locations :
            /\ get_parent_standalone(from) = get_parent_standalone(to)
                   => can_transfer_to(from, to)
            /\ (/\ locations[from].is_main_store
                /\ ParentOfParentStandalone(from) /= NoLoc
                /\ to = get_main_store(ParentOfParentStandalone(from)))
                   => can_transfer_to(from, to)

\* C28 (amended): can_transfer_to(from, to) is false when from is not a
\* store; for a store it is true when from and to have the same nearest
\* standalone ancestor, and true when from is a main store and to is the
\* standalone location above from's own (the location, not its main store).
C28_StoreCanTransfer ==
    Acyclic =>
        \A from \in DOMAIN locations, to \in DOMAIN locations :
            /\ ~locations[from].is_store => ~can_transfer_to(from, to)
            /\ (/\ locations[from].is_store
                /\ get_parent_standalone(from) = get_parent_standalone(to))
                   => can_transfer_to(from, to)
            /\ (/\ locations[from].is_store
                /\ locations[from].is_main_store
                /\ to = ParentOfParentStandalone(from))
                   => can_transfer_to(from, to)

C28_Witness ==
    /\ Acyclic
    /\ \E from \in DOMAIN locations, to \in DOMAIN locations :
        /\ locations[from].is_store
        /\ locations[from].is_main_store
        /\ get_parent_standalone(from) /= get_parent_standalone(to)
        /\ to = ParentOfParentStandalone(from)
        /\ can_transfer_to(from, to)
    /\ \E from \in DOMAIN locations, to \in DOMAIN locations :
        /\ ~locations[from].is_store
        /\ get_parent_standalone(from) = get_parent_standalone(to)
        /\ ~can_transfer_to(from, to)

\* ------------------------------------------------ the main store of a location
\* the standalone locations on the parent walk from l, l included
StandaloneAbove(l) ==
    {a \in DOMAIN locations :
        /\ locations[a].is_standalone
        /\ \/ a = l
           \/ ReachesUp(locations[l].parent_location, a,
                        Cardinality(DOMAIN locations))}

\* the first of them on the walk: every other one lies above it
NearestStandalone(l) ==
    IF StandaloneAbove(l) = {} THEN NoLoc
    ELSE CHOOSE a \in StandaloneAbove(l) :
            \A b \in StandaloneAbove(l) \ {a} :
                ReachesUp(locations[a].parent_location, b,
                          Cardinality(DOMAIN locations))

\* the main store the tree assigns to l
MainStoreOf(l) ==
    IF locations[l].is_store /\ locations[l].is_main_store THEN l
    ELSE IF locations[l].is_standalone THEN locations[l].auto_created_store
    ELSE IF NearestStandalone(l) = NoLoc THEN NoLoc
    ELSE locations[NearestStandalone(l)].auto_created_store

\* C29: in a tree without parent cycles get_main_store(l) is l for a main
\* store, else the auto_created_store of l when l is standalone, else that of
\* the first standalone location on the parent walk from l, and no location
\* when there is no such store.
C29_MainStore ==
    Acyclic => \A l \in DOMAIN locations : get_main_store(l) = MainStoreOf(l)

C29_Witness ==
    /\ Acyclic
    /\ \E l \in DOMAIN locations :
        /\ locations[l].is_store /\ locations[l].is_main_store
        /\ ~locations[l].is_standalone
        /\ NearestStandalone(l) /= NoLoc
        /\ locations[NearestStandalone(l)].auto_created_store /= l
        /\ get_main_store(l) = l
    /\ \E l \in DOMAIN locations :
        /\ ~locations[l].is_store /\ ~locations[l].is_standalone
        /\ get_main_store(l) /= NoLoc
        /\ get_main_store(l) = locations[NearestStandalone(l)].auto_created_store

\* ------------------------------------------------ the history of a certificate
\* the requests that move a certificate to another stage
TransitionOps ==
    {"submit_to_stock_incharge", "submit_stock_details",
     "submit_central_register", "submit_audit_review", "reject"}

\* the stage is the last to_stage (INITIATED without history) and every
\* record starts from the stage the record before it led to
HistoryTracksStage(c) ==
    /\ c.stage = StagesOf(c)[Len(c.stage_history) + 1]
    /\ \A k \in 1..Len(c.stage_history) :
          c.stage_history[k].from_stage = StagesOf(c)[k]

\* C30: stage_history only grows and follows stage: a step leaves stage and
\* history of a certificate alone or appends one record from the stage
\* before to the stage after; a transition request that succeeded appended
\* such a record, one that failed changed neither; so the stage is always
\* the last to_stage (INITIATED without history) and every from_stage is the
\* to_stage of the record before it.
C30_HistoryTracksStage ==
    [][\A c \in 1..Len(certs') :
          LET new == certs'[c] IN
          /\ HistoryTracksStage(new)
          /\ c <= Len(certs) =>
                LET old  == certs[c]
                    same == /\ new.stage = old.stage
                            /\ new.stage_history = old.stage_history
                    step == /\ new.stage /= old.stage
                            /\ new.stage_history =
                                  Append(old.stage_history,
                                         [from_stage |-> old.stage,
                                          to_stage |-> new.stage])
                IN  /\ same \/ step
                    /\ (last'.op \in TransitionOps /\ last'.entry = c) =>
                          IF last'.ok THEN step ELSE same]_vars

\* a certificate completed by the audit review after three earlier records
C30_Witness ==
    /\ last.op = "submit_audit_review" /\ last.ok
    /\ certs[last.entry].stage = COMPLETED
    /\ Len(certs[last.entry].stage_history) = 4
    /\ HistoryTracksStage(certs[last.entry])

\* ------------------------------------------------ the movements of an instance
\* the movement rows a step has added
AddedMovements == (Len(movements) + 1)..Len(movements')

\* C31: change_status adds exactly one movement row for its instance, from
\* the status and location the instance had to those it has afterwards, and
\* no step rewrites a movement row: a step that creates an ISSUE or RECEIPT
\* entry calls change_status once for each instance of the entry.
C31_OneMovementPerChange ==
    [][/\ Len(movements') >= Len(movements)
       /\ SubSeq(movements', 1, Len(movements)) = movements
       /\ (last'.op \in {"issue", "receipt"} /\ last'.ok
              /\ Len(entries') = Len(entries) + 1) =>
             LET S == entries'[Len(entries')].instances IN
             /\ \A m \in AddedMovements : movements'[m].instance \in S
             /\ \A i \in S :
                   /\ Cardinality({m \in AddedMovements :
                                      movements'[m].instance = i}) = 1
                   /\ \A m \in AddedMovements :
                         movements'[m].instance = i =>
                            /\ movements'[m].new_status = instances'[i].current_status
                            /\ movements'[m].to_location = instances'[i].current_location
                            /\ i <= Len(instances) =>
                                  /\ movements'[m].previous_status =
                                         instances[i].current_status
                                  /\ movements'[m].from_location =
                                         instances[i].current_location]_vars

\* an issue has just moved an instance out of the store that held it
C31_Witness ==
    /\ last.op = "issue" /\ last.ok
    /\ Len(movements) > 0
    /\ LET m == movements[Len(movements)] IN
          /\ m.instance \in entries[last.entry].instances
          /\ m.previous_status = IN_STORE
          /\ m.new_status = instances[m.instance].current_status
          /\ m.from_location /= m.to_location
          /\ m.to_location = instances[m.instance].current_location

\* ------------------------------------------------ the date stamps of an instance
\* null in each of the five date columns (0: not set; a date is the number of
\* the change_status call, which is the number of its movement row)
NoStamps ==
    [assigned_date |-> 0, actual_return_date |-> 0, repair_started_date |-> 0,
     damage_reported_date |-> 0, disposal_date |-> 0]

\* "Status-specific logic" of ItemInstance.change_status, at time now
StatusSpecific(st, old_status, new_status, now) ==
    IF new_status = TEMPORARY_ISSUED THEN [st EXCEPT !.assigned_date = now]
    ELSE IF new_status = IN_STORE /\ old_status = TEMPORARY_ISSUED
         THEN [st EXCEPT !.actual_return_date = now]
    ELSE IF new_status = UNDER_REPAIR
         THEN [st EXCEPT !.repair_started_date = IF @ = 0 THEN now ELSE @]
    ELSE IF new_status = DAMAGED
         THEN [st EXCEPT !.damage_reported_date = IF @ = 0 THEN now ELSE @]
    ELSE IF new_status = DISPOSED THEN [st EXCEPT !.disposal_date = now]
    ELSE st

\* the date columns of instance i after the first n movement rows: the rows
\* without stock entry are the calls of change_status
RECURSIVE StampsAfter(_, _)
StampsAfter(i, n) ==
    IF n = 0 THEN NoStamps
    ELSE LET m == movements[n] IN
         IF m.instance = i /\ m.stock_entry = 0
         THEN StatusSpecific(StampsAfter(i, n - 1), m.previous_status,
                             m.new_status, n)
         ELSE StampsAfter(i, n - 1)

Stamps(i) == StampsAfter(i, Len(movements))

\* the calls of change_status that took instance i from a status in olds to new
Visits(i, olds, new) ==
    {n \in 1..Len(movements) :
        /\ movements[n].instance = i /\ movements[n].stock_entry = 0
        /\ movements[n].previous_status \in olds
        /\ movements[n].new_status = new}

\* 0 without such a call, else the time of the first one
FirstVisit(i, olds, new) ==
    IF Visits(i, olds, new) = {} THEN 0
    ELSE CHOOSE n \in Visits(i, olds, new) : \A k \in Visits(i, olds, new) : n <= k

InstanceStatuses ==
    {IN_STORE, IN_TRANSIT, IN_USE, TEMPORARY_ISSUED, UNDER_REPAIR, DAMAGED, DISPOSED}

\* C32: each date stamp of an instance is the time of the first transition
\* that sets it; later visits to the same status leave it as it is.
C32_StampedOnce ==
    \A i \in 1..Len(instances) :
        /\ Stamps(i).assigned_date =
              FirstVisit(i, InstanceStatuses, TEMPORARY_ISSUED)
        /\ Stamps(i).actual_return_date =
              FirstVisit(i, {TEMPORARY_ISSUED}, IN_STORE)
        /\ Stamps(i).repair_started_date =
              FirstVisit(i, InstanceStatuses, UNDER_REPAIR)
        /\ Stamps(i).damage_reported_date =
              FirstVisit(i, InstanceStatuses, DAMAGED)
        /\ Stamps(i).disposal_date = FirstVisit(i, InstanceStatuses, DISPOSED)

\* ------------------------------------------------ instances in transit
\* the entries awaiting acknowledgment that reference instance i
PendingEntriesOf(i) ==
    {e \in 1..Len(entries) :
        entries[e].status = "PENDING_ACK" /\ i \in entries[e].instances}

\* C33: every instance that is IN_TRANSIT is referenced by exactly one stock
\* entry in PENDING_ACK.
C33_NoneStranded ==
    \A i \in 1..Len(instances) :
        instances[i].current_status = IN_TRANSIT =>
            Cardinality(PendingEntriesOf(i)) = 1

\* C34: every instance referenced by a stock entry in PENDING_ACK is
\* IN_TRANSIT.
C34_PendingKeepsTransit ==
    \A e \in 1..Len(entries) :
        entries[e].status = "PENDING_ACK" =>
            \A i \in entries[e].instances \cap (1..Len(instances)) :
                instances[i].current_status = IN_TRANSIT

\* C35: an acknowledgment that succeeded changed no instance outside the
\* entry it acknowledged and wrote no movement row for such an instance.
C35_OnlyOwnInstances ==
    [][(last'.op \in {"acknowledge_receipt", "acknowledge_return"} /\ last'.ok) =>
          \A i \in 1..Len(instances) :
              i \notin entries[last'.entry].instances =>
                  /\ instances'[i] = instances[i]
                  /\ \A m \in AddedMovements : movements'[m].instance /= i]_vars

\* C36: an ISSUE entry that was accepted references only instances that were
\* IN_STORE at its from_location and are of its item.
C36_IssuedFromHolder ==
    [][(last'.op = "issue" /\ last'.ok /\ Len(entries') = Len(entries) + 1) =>
          LET e == entries'[Len(entries')] IN
          \A i \in e.instances :
              /\ instances[i].current_status = IN_STORE
              /\ instances[i].current_location = e.from_location
              /\ instances[i].item = e.item]_vars

\* ------------------------------------------------ the quantities of a row
\* the nine per-status quantities of an inventory row, added up
StatusSum(row) ==
    row.in_store_quantity + row.in_transit_quantity + row.in_use_quantity
    + row.temporary_issued_quantity + row.under_repair_quantity
    + row.damaged_quantity + row.lost_quantity + row.condemned_quantity
    + row.disposed_quantity

\* C37: in every reachable state update_quantities leaves each inventory row
\* with total_quantity equal to the sum of its nine per-status quantities.
C37_TotalIsStatusSum ==
    \A k \in DOMAIN inventory :
        LET row == update_quantities(DB, k[1], k[2]).inv[k]
        IN  row.total_quantity = StatusSum(row)

\* ------------------------------------------------ the denormalised hierarchy
\* Location.save writes hierarchy_level and hierarchy_path from the same
\* parent row, the level being the number of codes in the path less one
hierarchy_level(l) == Len(locations[l].hierarchy_path) - 1

\* the number of parent links from l to a location without parent
RECURSIVE LinksToRoot(_, _)
LinksToRoot(l, fuel) ==
    IF locations[l].parent_location = NoLoc \/ fuel = 0 THEN 0
    ELSE 1 + LinksToRoot(locations[l].parent_location, fuel - 1)

\* C38: in a tree without parent cycles every location has hierarchy_level
\* equal to its number of parent links to the root and hierarchy_path equal
\* to its parent's path followed by its code (its code alone for a root),
\* and is_descendant_of(a, b) holds exactly when b is a proper ancestor of a.
C38_HierarchyFollowsParents ==
    Acyclic =>
        /\ \A l \in DOMAIN locations :
              /\ hierarchy_level(l) = LinksToRoot(l, Cardinality(DOMAIN locations))
              /\ locations[l].hierarchy_path =
                    PathOf(locations, l, locations[l].parent_location)
        /\ \A a \in DOMAIN locations, b \in DOMAIN locations :
              is_descendant_of(a, b) <=>
                  ReachesUp(locations[a].parent_location, b,
                            Cardinality(DOMAIN locations))

\* ------------------------------------------------ progress of a certificate
\* the stock incharges of the main store created with the department of
\* certificate row c
MainStoreCustodian(u, c) ==
    /\ Profile(u).role = STOCK_INCHARGE
    /\ locations[c.department].auto_created_store \in Profile(u).assigned_locations

\* C39: while a certificate of a department other than the root is in
\* STOCK_DETAILS, every stock incharge of that department's auto-created
\* main store is permitted to perform submit_stock_details.
C39_MainStoreCustodianMayProceed ==
    \A c \in 1..Len(certs) :
        (certs[c].stage = STOCK_DETAILS /\ ~is_root_department(certs[c])) =>
            \A u \in UserIds :
                MainStoreCustodian(u, certs[c]) =>
                    CertAccess(u, "submit_stock_details", certs[c])

\* ------------------------------------------------- interleaved audit reviews
\* submit_audit_review reads the certificate with get_object(), without
\* select_for_update, and checks the stage of the row it has read
\* (ReadAudit); transition_stage and _create_stock_from_inspection write
\* later from that row (WriteAudit).  The request carries no data.
AuditRequest(slot, u, c) ==
    [slot |-> slot, op |-> "submit_audit_review", entry |-> c, user |-> u,
     row |-> certs[c], main_store |-> get_main_store(certs[c].department)]

\* get_object() and the early returns of submit_audit_review; the bound on
\* instances and entries applies to admission
ReadAudit(u, c) ==
    /\ FreeSlots /= {}
    /\ c \in 1..Len(certs)
    /\ CertAccess(u, "submit_audit_review", certs[c])
    /\ certs[c].stage = AUDIT_REVIEW
    /\ get_main_store(certs[c].department) /= NoLoc
    /\ HasCentralRegister(certs[c]) /\ ~ConsigneeMissing(certs[c])
    /\ Len(instances) + (Cardinality(reqs) + 1)
           * AcceptedTotal(certs[c].inspection_items, 1) <= MaxInst
    /\ Len(entries) + (Cardinality(reqs) + 1) * Len(certs[c].inspection_items)
           <= MaxEntries
    /\ reqs' = reqs \cup
          {AuditRequest(CHOOSE n \in FreeSlots : \A m \in FreeSlots : n <= m, u, c)}
    /\ UNCHANGED <<locations, instances, entries, movements, inventory, certs, last>>

\* "inspection.transition_stage('COMPLETED', request.user)" on the row that
\* was read, then _create_stock_from_inspection over the items of the table
WriteAudit(r) ==
    /\ r.op = "submit_audit_review"
    /\ certs' = [certs EXCEPT ![r.entry] =
                    [transition_stage(r.row, COMPLETED, r.user, NoVal)
                        EXCEPT !.inspection_items = certs[r.entry].inspection_items]]
    /\ Commit(create_stock_from_inspection(DB, r.entry,
                  certs[r.entry].inspection_items, 1, r.main_store))
    /\ reqs' = reqs \ {r}
    /\ last' = CertCall(r.user, "submit_audit_review", TRUE, r.entry)
    /\ UNCHANGED locations

AuditUsers == CertUsers
AuditItems == {<<ItemRow(i, MaxInst, q, 0)>> : i \in Items, q \in 1..MaxInst}
AuditData ==
    {NoData, Data(Absent, "c", Absent, Absent), Data(Absent, Absent, "s", Absent),
     Data(Absent, Absent, Absent, "r")}

NextAudit ==
    \/ \E u \in AuditUsers, dept \in Departments, hdr \in {Header("k")},
          items \in AuditItems :
          CreateCertificate(u, dept, hdr, items)
    \/ \E u \in AuditUsers, c \in 1..MaxCerts, d \in AuditData :
          UpdateCertificate(u, c, d)
    \/ \E u \in AuditUsers, c \in 1..MaxCerts, d \in AuditData :
          SubmitToStockIncharge(u, c, d)
    \/ \E u \in AuditUsers, c \in 1..MaxCerts, d \in AuditData :
          SubmitStockDetails(u, c, d)
    \/ \E u \in AuditUsers, c \in 1..MaxCerts, d \in AuditData :
          SubmitCentralRegister(u, c, d)
    \/ \E u \in AuditUsers, c \in 1..MaxCerts : ReadAudit(u, c)
    \/ \E r \in reqs : WriteAudit(r)

SpecAudit == Init /\ [][NextAudit]_vars

\* the instances created from certificate c
InstancesOf(c) ==
    {i \in 1..Len(instances) : instances[i].inspection_certificate = c}

\* the history records of certificate row c that lead to COMPLETED
Completions(c) ==
    {k \in 1..Len(c.stage_history) : c.stage_history[k].to_stage = COMPLETED}

\* C40: the instances linked to a certificate never number more than the
\* accepted quantities of its items added up, and its stage_history has at
\* most one record with to_stage COMPLETED.
C40_MaterialisedOnce ==
    \A c \in 1..Len(certs) :
        /\ Cardinality(InstancesOf(c)) <= AcceptedTotal(certs[c].inspection_items, 1)
        /\ Cardinality(Completions(certs[c])) <= 1

====
